---------------------------- MODULE Spec2Model ----------------------------
(***************************************************************************)
(* Kodi library integration of plugin.video.netflix:                       *)
(*   resources/lib/kodi/library.py          Library (orchestrator)         *)
(*   resources/lib/kodi/library_tasks.py    LibraryTasks (compiler,        *)
(*                                          executor)                      *)
(*   resources/lib/services/library_updater.py  LibraryUpdateService       *)
(*                                          (scheduler)                    *)
(*                                                                         *)
(* Strings are sequences of one-character strings, so that formatting,     *)
(* parsing and sanitising are computed character by character.  None is    *)
(* the empty sequence where a string or a list is expected.                *)
(***************************************************************************)
EXTENDS Integers, Sequences, FiniteSets, TLC

VARIABLES
    \* ---- SHARED_DB / LOCAL_DB (the persisted store) ----
    episodes,        \* rows of the exported episodes: [TvShowID, SeasonID, EpisodeID, FilePath]
    movies,          \* rows of the exported movies: [MovieID, FilePath]
    excluded,        \* tvshow ids whose VidLibProp exclude_update is True
    is_running,      \* value 'library_auto_update_is_running'
    last_start,      \* value 'library_auto_update_last_start' (minutes since the epoch)
    owner_uuid,      \* value 'auto_update_device_uuid'
    files,           \* the file paths that exist under the library folders
    \* ---- the remote catalogue ----
    catalogue,       \* video id -> the metadata record the remote API holds for it
    \* ---- one invocation of Library.auto_update_library ----
    pc,              \* position of the invocation
    args,            \* its arguments [sync_with_mylist, show_prg_dialog, clear_on_cancel]
    mylist,          \* [video_id_list, video_id_list_type]: the remote My List
    exp_tvshows,     \* exp_tvshows_videoids_values
    exp_movies,      \* exp_movies_videoids_values
    excluded_values, \* excluded_videoids_values of _update_library
    videoids_tasks,  \* the plan: a function from VideoId to task handler
    todo,            \* the plan entries the loop of _update_library has not reached yet
    cur,             \* the plan entry being processed (a set of at most one VideoId)
    compiled,        \* compiled tasks of the current entry (execute_library_tasks)
    index,           \* index of execute_library_tasks
    list_errors,     \* list_errors of execute_library_tasks
    log,             \* what the invocation did, in order (observations for the properties)
    \* ---- LibraryUpdateService ----
    enabled,         \* self.enabled
    startidle,       \* self.startidle
    next_schedule,   \* self.next_schedule: <<minutes since the epoch>>, or None
    settings,        \* g.ADDON settings read by the service
    now,             \* datetime.now(), in minutes since the epoch
    tick,            \* what the on_service_tick that has just run saw and did (observation)
    \* ---- the callers of the library ----
    callers,         \* caller -> position of its invocation of auto_update_library
    \* ---- file names ----
    name_text,       \* a title of the remote metadata
    name_clean,      \* re.sub(ILLEGAL_CHARACTERS, '', name_text)
    \* ---- one call of execute_library_tasks or execute_library_tasks_gui ----
    op,              \* the call: [fn, task_handlers, videoid, notify] and the rows it found
    queue,           \* the compiled tasks with their handlers, in the order of the loops
    total_tasks,     \* total_tasks
    yields,          \* the triples yielded / the progress messages set, in order
    shown,           \* the calls of show_library_task_errors, in order
    ops              \* the calls that have returned, in order (observation)

storeVars == <<episodes, movies, excluded, is_running, last_start, owner_uuid, files>>
runVars   == <<pc, args, mylist, exp_tvshows, exp_movies, excluded_values,
               videoids_tasks, todo, cur,
               compiled, index, list_errors, log>>
schedVars == <<enabled, startidle, next_schedule, settings, now, tick>>
callVars  == <<callers>>
textVars  == <<name_text, name_clean>>
execVars  == <<op, queue, total_tasks, yields, shown, ops>>
vars      == <<storeVars, catalogue, runVars, schedVars, callVars, textVars, execVars>>

---------------------------------------------------------------------------
(* Bounds of the model *)

NumIds == 3          \* video ids of the catalogue are 1..NumIds
NumEpisodes == 2     \* episodes per season in the remote metadata
NumSeasons == 2      \* seasons of a tv show in the remote metadata
MaxFailures == 1     \* task handler calls that raise during one invocation
FirstDay == 8        \* the day, counted from the epoch, on which the service starts
MaxDays == 1         \* days the clock runs on after the first one
NumCallers == 3      \* processes that call auto_update_library on one store
MaxLen == 3          \* characters of a title
MaxOps == 2          \* manual operations, one after the other

None == <<>>

---------------------------------------------------------------------------
(* Text: unicode(), int(), str.format *)

DigitChars == <<"0", "1", "2", "3", "4", "5", "6", "7", "8", "9">>

RECURSIVE unicode(_)
\* unicode(n) of a non-negative integer: its decimal digits
unicode(n) == IF n < 10 THEN <<DigitChars[n + 1]>>
          ELSE unicode(n \div 10) \o <<DigitChars[(n % 10) + 1]>>

DigitVal(c) == CHOOSE d \in 0..9 : DigitChars[d + 1] = c

RECURSIVE IntAcc(_, _)
IntAcc(s, acc) == IF s = <<>> THEN acc
                  ELSE IntAcc(Tail(s), 10 * acc + DigitVal(Head(s)))

\* int(s) of a string of decimal digits
int(s) == IntAcc(s, 0)

\* '{:02d}'.format(n)
Fmt02d(n) == IF n < 10 THEN <<"0">> \o unicode(n) ELSE unicode(n)

RECURSIVE JoinSeqs(_)
JoinSeqs(ss) == IF ss = <<>> THEN <<>> ELSE Head(ss) \o JoinSeqs(Tail(ss))

RECURSIVE SumSeq(_)
SumSeq(ns) == IF ns = <<>> THEN 0 ELSE Head(ns) + SumSeq(Tail(ns))

RECURSIVE SetToSeq(_)
\* the elements of a finite set of integers, ascending
SetToSeq(S) == IF S = {} THEN <<>>
               ELSE LET m == CHOOSE x \in S : \A y \in S : x <= y
                    IN  <<m>> \o SetToSeq(S \ {m})

Range(s) == {s[i] : i \in 1..Len(s)}

---------------------------------------------------------------------------
(* common.VideoId: a hierarchical key; an unset field is None *)

MOVIE == "movie"
SHOW == "show"
SEASON == "season"
EPISODE == "episode"

VideoId(movieid, tvshowid, seasonid, episodeid) ==
    [movieid |-> movieid, tvshowid |-> tvshowid,
     seasonid |-> seasonid, episodeid |-> episodeid]

MovieVideoId(v) == VideoId(v, None, None, None)
ShowVideoId(v) == VideoId(None, v, None, None)

\* VideoId.from_path([mediatype, value]) for the two container types
from_path(mt, v) ==
    IF mt = MOVIE THEN MovieVideoId(unicode(v)) ELSE ShowVideoId(unicode(v))

mediatype(videoid) ==
    IF videoid.movieid # None THEN MOVIE
    ELSE IF videoid.episodeid # None THEN EPISODE
    ELSE IF videoid.seasonid # None THEN SEASON
    ELSE SHOW

\* VideoId.value: the most specific id
value(videoid) ==
    IF videoid.movieid # None THEN videoid.movieid
    ELSE IF videoid.episodeid # None THEN videoid.episodeid
    ELSE IF videoid.seasonid # None THEN videoid.seasonid
    ELSE videoid.tvshowid

derive_season(videoid, seasonid) == [videoid EXCEPT !.seasonid = unicode(seasonid)]
derive_episode(videoid, episodeid) == [videoid EXCEPT !.episodeid = unicode(episodeid)]

---------------------------------------------------------------------------
(* The remote catalogue: what ext_func_get_metadata and                    *)
(* ext_func_get_mylist_videoids_profile_switch answer from                 *)

Ids == 1..NumIds

\* every third video id is a movie, the others are tv shows
IsMovieId(i) == i % 3 = 0
TypeOf(i) == IF IsMovieId(i) THEN "movie" ELSE "show"
ShowIds == {i \in Ids : ~IsMovieId(i)}
MovieIds == {i \in Ids : IsMovieId(i)}

\* titles hold a character that is illegal in a file name
TitleOf(i) == <<"T", ":">> \o unicode(i)
YearOf(i) == 2000 + i

SeasonIdOf(i, s) == 10 * i + s
EpisodeIdOf(i, s, e) == 10 * SeasonIdOf(i, s) + e

EpisodeMeta(i, s, e) == [id |-> EpisodeIdOf(i, s, e), seq |-> e]

SeasonMeta(i, s, ne) ==
    [id |-> SeasonIdOf(i, s), seq |-> s,
     episodes |-> [e \in 1..ne |-> EpisodeMeta(i, s, e)]]

\* a show with ns seasons, the last of which has ne episodes and the
\* earlier ones NumEpisodes
ShowMeta(i, ns, ne) ==
    [type |-> "show", id |-> i, title |-> TitleOf(i),
     seasons |-> [s \in 1..ns |->
                    SeasonMeta(i, s, IF s = ns THEN ne ELSE NumEpisodes)]]

MovieMeta(i) == [type |-> "movie", id |-> i, title |-> TitleOf(i), year |-> YearOf(i)]

\* the remote My List holding the video ids of S, each with its type tag
MyListOf(S) ==
    LET ids == SetToSeq(S)
    IN  [video_id_list |-> [k \in 1..Len(ids) |-> unicode(ids[k])],
         video_id_list_type |-> [k \in 1..Len(ids) |-> TypeOf(ids[k])]]

NoMyList == [video_id_list |-> <<>>, video_id_list_type |-> <<>>]

---------------------------------------------------------------------------
(* g.SHARED_DB: the queries of the persisted store *)

get_tvshows_id_list == {r.TvShowID : r \in episodes}

\* get_tvshows_id_list(VidLibProp['exclude_update'], flag)
get_tvshows_id_list_prop(flag) ==
    {v \in get_tvshows_id_list : (v \in excluded) = flag}

get_movies_id_list == {r.MovieID : r \in movies}

season_id_exists(tvshowid, seasonid) ==
    \E r \in episodes : r.TvShowID = int(tvshowid) /\ r.SeasonID = seasonid

episode_id_exists(tvshowid, seasonid, episodeid) ==
    \E r \in episodes : /\ r.TvShowID = int(tvshowid)
                        /\ r.SeasonID = seasonid
                        /\ r.EpisodeID = episodeid

---------------------------------------------------------------------------
(* Library.auto_update_library: the plan videoids_tasks *)

export_item == "export_item"
export_new_item == "export_new_item"
remove_item == "remove_item"

\* dict.update({k: v})
DictUpdate(d, k, v) == [x \in (DOMAIN d) \cup {k} |-> IF x = k THEN v ELSE d[x]]

\* dict.update({k: v}) for every k of K
DictUpdateAll(d, K, v) == [x \in (DOMAIN d) \cup K |-> IF x \in K THEN v ELSE d[x]]

\* a dict.update that keeps the entry a key already has
RemovedShowsTasksKeep(d, tvshows, ml) ==
    [x \in (DOMAIN d) \cup {from_path(SHOW, v) :
                v \in {w \in tvshows : unicode(w) \notin Range(ml.video_id_list)}}
        |-> IF x \in DOMAIN d THEN d[x] ELSE "remove_item"]

\* a seed that maps the exported tv shows to export_item
SeedTasksAsExport(not_excluded) ==
    [x \in {from_path(SHOW, v) : v \in not_excluded} |-> export_item]

\* library.py 175-179: the exported tv shows to be updated
SeedTasks(not_excluded) ==
    [x \in {from_path(SHOW, v) : v \in not_excluded} |-> export_new_item]

\* library.py 186-192: tv shows that are no more in My List
RemovedShowsTasks(d, tvshows, ml) ==
    DictUpdateAll(d, {from_path(SHOW, v) :
                        v \in {w \in tvshows : unicode(w) \notin Range(ml.video_id_list)}},
                  remove_item)

\* library.py 194-200: movies that are no more in My List
RemovedMoviesTasks(d, mvs, ml) ==
    DictUpdateAll(d, {from_path(MOVIE, v) :
                        v \in {w \in mvs : unicode(w) \notin Range(ml.video_id_list)}},
                  remove_item)

\* library.py 208: the task handler of a video of My List that is not exported
MissingItemHandler(is_movie) == IF is_movie THEN export_new_item ELSE export_item

RECURSIVE MissingItemsTasks(_, _, _, _, _)
\* library.py 202-208: the loop over enumerate(mylist_video_id_list), from k on
MissingItemsTasks(d, tvshows, mvs, ml, k) ==
    IF k > Len(ml.video_id_list) THEN d
    ELSE LET videoid_value == ml.video_id_list[k]
             is_movie == ml.video_id_list_type[k] = "movie"
             videoid == IF is_movie THEN MovieVideoId(videoid_value)
                        ELSE ShowVideoId(videoid_value)
         IN  IF int(videoid_value) \notin tvshows /\ int(videoid_value) \notin mvs
             THEN MissingItemsTasks(DictUpdate(d, videoid, MissingItemHandler(is_movie)),
                                    tvshows, mvs, ml, k + 1)
             ELSE MissingItemsTasks(d, tvshows, mvs, ml, k + 1)

\* library.py 171-208
ComputePlan(sync_with_mylist, tvshows, mvs, not_excluded, ml) ==
    IF sync_with_mylist
    THEN MissingItemsTasks(
             RemovedMoviesTasks(
                 RemovedShowsTasks(SeedTasks(not_excluded), tvshows, ml), mvs, ml),
             tvshows, mvs, ml, 1)
    ELSE SeedTasks(not_excluded)

---------------------------------------------------------------------------
(* nfo.NFOSettings, as the compiler reads it; NoNFOSettings is None *)

NFOSettings(movie, tvshow, full) ==
    [none |-> FALSE, export_movie_enabled |-> movie,
     export_tvshow_enabled |-> tvshow, export_full_tvshow |-> full]

NoNFOSettings ==
    [none |-> TRUE, export_movie_enabled |-> FALSE,
     export_tvshow_enabled |-> FALSE, export_full_tvshow |-> FALSE]

AllNFOSettings == {NFOSettings(m, t, f) : m \in BOOLEAN, t \in BOOLEAN, f \in BOOLEAN}

---------------------------------------------------------------------------
(* library_utils: folder names, sanitisation, titles from paths *)

FOLDER_NAME_MOVIES == <<"movies">>
FOLDER_NAME_SHOWS == <<"shows">>
STRM == <<".strm">>

ILLEGAL_CHARACTERS == {"<", ">", "|", "\"", "?", "$", "!", ":", "#", "*"}

IsLegalChar(c) == c \notin ILLEGAL_CHARACTERS

\* re.sub(ILLEGAL_CHARACTERS, '', name_text)
sanitize(text) == SelectSeq(text, IsLegalChar)

\* a file path, as its components <<root folder, folder, file name, extension>>
FilePathOf(root_folder_name, folder_name, filename) ==
    <<root_folder_name, folder_name, filename, STRM>>

\* os.path.splitext(os.path.basename(file_path))[0]
BaseNameNoExt(file_path) == file_path[3]

\* get_episode_title_from_path(file_path)
get_episode_title_from_path(file_path) ==
    file_path[2] \o <<" ", "-", " ">> \o file_path[3]

---------------------------------------------------------------------------
(* ext_func_get_metadata(videoid): the list of metadata records, leaf      *)
(* first; raising MetadataNotAvailable is decided by the caller           *)

ShowOf(videoid) == catalogue[int(videoid.tvshowid)]

find_season(seasonid, seasons) ==
    LET ks == {k \in 1..Len(seasons) : seasons[k].id = seasonid}
    IN  seasons[CHOOSE k \in ks : TRUE]

find_episode(episodeid, eps) ==
    LET ks == {k \in 1..Len(eps) : eps[k].id = episodeid}
    IN  eps[CHOOSE k \in ks : TRUE]

get_metadata(videoid) ==
    IF mediatype(videoid) = MOVIE THEN <<catalogue[int(videoid.movieid)]>>
    ELSE IF mediatype(videoid) = EPISODE
    THEN LET show == ShowOf(videoid)
             season == find_season(int(videoid.seasonid), show.seasons)
         IN  <<find_episode(int(videoid.episodeid), season.episodes), season, show>>
    ELSE <<ShowOf(videoid)>>

---------------------------------------------------------------------------
(* LibraryTasks: the task compiler (library_tasks.py 98-288) *)

\* an export task with the file name as given
create_export_item_task_raw(create_strm_file, create_nfo_file, videoid, title, root_folder_name, folder_name, filename, nfo_data) ==
    [create_strm_file |-> create_strm_file,
     create_nfo_file |-> create_nfo_file,
     videoid |-> videoid,
     title |-> title,
     root_folder_name |-> root_folder_name,
     folder_name |-> sanitize(folder_name),
     filename |-> filename,
     nfo_data |-> nfo_data]

\* library_tasks.py 204-215
create_export_item_task(create_strm_file, create_nfo_file, videoid, title, root_folder_name, folder_name, filename, nfo_data) ==
    [create_strm_file |-> create_strm_file,
     create_nfo_file |-> create_nfo_file,
     videoid |-> videoid,
     title |-> title,
     root_folder_name |-> root_folder_name,
     folder_name |-> sanitize(folder_name),
     filename |-> sanitize(filename),
     nfo_data |-> nfo_data]

\* library_tasks.py 282-288
create_remove_item_task(title, file_path, videoid) ==
    [title |-> title, file_path |-> file_path, videoid |-> videoid]

\* library_tasks.py 131-142
create_export_movie_task(videoid, movie, nfo_settings) ==
    LET filename == movie.title \o <<" ", "(">> \o unicode(movie.year) \o <<")">>
        create_nfo_file == ~nfo_settings.none /\ nfo_settings.export_movie_enabled
        nfo_data == IF create_nfo_file THEN <<"movie_nfo", movie.id>> ELSE None
    IN  <<create_export_item_task(TRUE, create_nfo_file, videoid, movie.title,
                                  FOLDER_NAME_MOVIES, filename, filename, nfo_data)>>

\* an episode task whose file name carries the nfo setting of the export
create_export_episode_task_nfo_name(videoid, episode, season, show, nfo_settings) ==
    LET create_nfo_file == ~nfo_settings.none /\ nfo_settings.export_tvshow_enabled
        filename == <<"S">> \o Fmt02d(season.seq) \o <<"E">> \o Fmt02d(episode.seq)
                    \o (IF create_nfo_file THEN <<"n">> ELSE <<>>)
        title == show.title \o <<" ", "-", " ">> \o filename
        nfo_data == IF create_nfo_file THEN <<"episode_nfo", episode.id>> ELSE None
    IN  create_export_item_task(TRUE, create_nfo_file, videoid, title,
                                FOLDER_NAME_SHOWS, show.title, filename, nfo_data)

\* library_tasks.py 191-202
create_export_episode_task(videoid, episode, season, show, nfo_settings) ==
    LET filename == <<"S">> \o Fmt02d(season.seq) \o <<"E">> \o Fmt02d(episode.seq)
        title == show.title \o <<" ", "-", " ">> \o filename
        create_nfo_file == ~nfo_settings.none /\ nfo_settings.export_tvshow_enabled
        nfo_data == IF create_nfo_file THEN <<"episode_nfo", episode.id>> ELSE None
    IN  create_export_item_task(TRUE, create_nfo_file, videoid, title,
                                FOLDER_NAME_SHOWS, show.title, filename, nfo_data)

\* library_tasks.py 185-189
compile_export_season_tasks(videoid, show, season, nfo_settings) ==
    [k \in 1..Len(season.episodes) |->
        create_export_episode_task(derive_episode(videoid, season.episodes[k].id),
                                   season.episodes[k], season, show, nfo_settings)]

\* library_tasks.py 178-183
compile_export_show_tasks(videoid, show, nfo_settings) ==
    JoinSeqs([k \in 1..Len(show.seasons) |->
        compile_export_season_tasks(derive_season(videoid, show.seasons[k].id),
                                    show, show.seasons[k], nfo_settings)])

\* a scan of the metadata that finds no entry
ShowKeyIndexNone(metadata) == 0

\* library_tasks.py 165-169: the position of the last entry of type 'show', or 0
ShowKeyIndex(metadata) ==
    LET ks == {k \in 1..Len(metadata) :
                  "type" \in DOMAIN metadata[k] /\ metadata[k].type = "show"}
    IN  IF ks = {} THEN 0 ELSE CHOOSE k \in ks : \A j \in ks : j <= k

\* library_tasks.py 144-176
create_export_tv_tasks(videoid, metadata, nfo_settings) ==
    LET tasks ==
            IF mediatype(videoid) = SHOW
            THEN compile_export_show_tasks(videoid, metadata[1], nfo_settings)
            ELSE IF mediatype(videoid) = SEASON
            THEN compile_export_season_tasks(
                     videoid, metadata[1],
                     find_season(int(videoid.seasonid), metadata[1].seasons),
                     nfo_settings)
            ELSE <<create_export_episode_task(videoid, metadata[1], metadata[2],
                                              metadata[3], nfo_settings)>>
        key_index == ShowKeyIndex(metadata)
    IN  IF ~nfo_settings.none /\ nfo_settings.export_full_tvshow /\ key_index > 0
        THEN Append(tasks,
                 create_export_item_task(FALSE, TRUE, videoid,
                     <<"t", "v", "s", "h", "o", "w", ".", "n", "f", "o">>,
                     FOLDER_NAME_SHOWS, metadata[key_index].title,
                     <<"t", "v", "s", "h", "o", "w">>,
                     <<"show_nfo", metadata[key_index].id>>))
        ELSE tasks

\* an _add_missing_items that does not ask the store for the episodes
add_missing_items_all(season, videoid, metadata, nfo_settings) ==
    compile_export_season_tasks(derive_season(videoid, season.id),
                                metadata[1], season, nfo_settings)

\* library_tasks.py 228-249: the tasks _add_missing_items appends for a season
add_missing_items(season, videoid, metadata, nfo_settings) ==
    IF season_id_exists(value(videoid), season.id)
    THEN LET missing == SelectSeq(season.episodes,
                 LAMBDA episode :
                     ~episode_id_exists(value(videoid), season.id, episode.id))
         IN  [k \in 1..Len(missing) |->
                 create_export_episode_task(
                     derive_episode(derive_season(videoid, season.id), missing[k].id),
                     missing[k], season, metadata[1], nfo_settings)]
    ELSE compile_export_season_tasks(derive_season(videoid, season.id),
                                     metadata[1], season, nfo_settings)

\* library_tasks.py 217-226
create_new_episodes_tasks(videoid, metadata, nfo_settings) ==
    IF metadata # <<>> /\ "seasons" \in DOMAIN metadata[1]
    THEN JoinSeqs([k \in 1..Len(metadata[1].seasons) |->
             add_missing_items(metadata[1].seasons[k], videoid, metadata,
                 IF nfo_settings.none THEN NFOSettings(FALSE, FALSE, FALSE)
                 ELSE nfo_settings)])
    ELSE <<>>

---------------------------------------------------------------------------
(* g.SHARED_DB rows read by the compiler of the remove tasks *)

EpisodeRow(tvshowid, seasonid, episodeid, file_path) ==
    [TvShowID |-> tvshowid, SeasonID |-> seasonid,
     EpisodeID |-> episodeid, FilePath |-> file_path]

MovieRow(movieid, file_path) == [MovieID |-> movieid, FilePath |-> file_path]

\* the rows of R, by ascending episode id
RowsToSeq(R) ==
    LET ids == SetToSeq({r.EpisodeID : r \in R})
    IN  [k \in 1..Len(ids) |-> CHOOSE r \in R : r.EpisodeID = ids[k]]

get_all_episodes_ids_and_filepath_from_tvshow(tvshowid) ==
    RowsToSeq({r \in episodes : r.TvShowID = int(tvshowid)})

get_all_episodes_ids_and_filepath_from_season(tvshowid, seasonid) ==
    RowsToSeq({r \in episodes : r.TvShowID = int(tvshowid) /\ r.SeasonID = int(seasonid)})

\* library_tasks.py 272-280
create_remove_tv_tasks(row_results) ==
    [k \in 1..Len(row_results) |->
        create_remove_item_task(
            get_episode_title_from_path(row_results[k].FilePath),
            row_results[k].FilePath,
            VideoId(None, unicode(row_results[k].TvShowID),
                    unicode(row_results[k].SeasonID),
                    unicode(row_results[k].EpisodeID)))]

\* library_tasks.py 251-254
create_remove_movie_task(videoid) ==
    LET file_path == (CHOOSE r \in movies : r.MovieID = int(value(videoid))).FilePath
    IN  <<create_remove_item_task(BaseNameNoExt(file_path), file_path, videoid)>>

\* library_tasks.py 256-258
compile_remove_tvshow_tasks(videoid) ==
    create_remove_tv_tasks(get_all_episodes_ids_and_filepath_from_tvshow(value(videoid)))

\* library_tasks.py 260-263
compile_remove_season_tasks(videoid) ==
    create_remove_tv_tasks(
        get_all_episodes_ids_and_filepath_from_season(videoid.tvshowid, videoid.seasonid))

\* library_tasks.py 265-270
create_remove_episode_task(videoid) ==
    LET file_path == (CHOOSE r \in episodes :
                         /\ r.TvShowID = int(videoid.tvshowid)
                         /\ r.SeasonID = int(videoid.seasonid)
                         /\ r.EpisodeID = int(videoid.episodeid)).FilePath
    IN  <<create_remove_item_task(get_episode_title_from_path(file_path),
                                  file_path, videoid)>>

\* what compile_tasks returns: a list of tasks, or None
Tasks(tasks) == [none |-> FALSE, tasks |-> tasks]
NoTasks == [none |-> TRUE, tasks |-> <<>>]

\* library_tasks.py 98-129; available: the metadata lookup does not raise
\* MetadataNotAvailable
compile_tasks(videoid, task_handler, nfo_settings, available) ==
    IF task_handler = export_item
    THEN IF ~available THEN NoTasks
         ELSE IF mediatype(videoid) = MOVIE
         THEN Tasks(create_export_movie_task(videoid, get_metadata(videoid)[1], nfo_settings))
         ELSE Tasks(create_export_tv_tasks(videoid, get_metadata(videoid), nfo_settings))
    ELSE IF task_handler = export_new_item
    THEN IF ~available THEN NoTasks
         ELSE Tasks(create_new_episodes_tasks(videoid, get_metadata(videoid), nfo_settings))
    ELSE IF task_handler = remove_item
    THEN IF mediatype(videoid) = MOVIE THEN Tasks(create_remove_movie_task(videoid))
         ELSE IF mediatype(videoid) = SHOW THEN Tasks(compile_remove_tvshow_tasks(videoid))
         ELSE IF mediatype(videoid) = SEASON THEN Tasks(compile_remove_season_tasks(videoid))
         ELSE Tasks(create_remove_episode_task(videoid))
    ELSE NoTasks

---------------------------------------------------------------------------
(* LibraryItems: the task handlers export_item, export_new_item and        *)
(* remove_item, by their effect on the store and on the files              *)

NFO == <<".nfo">>

TaskFilePath(task) == FilePathOf(task.root_folder_name, task.folder_name, task.filename)

NfoPathOf(file_path) == <<file_path[1], file_path[2], file_path[3], NFO>>

SameEpisode(r, videoid) ==
    /\ r.TvShowID = int(videoid.tvshowid)
    /\ r.SeasonID = int(videoid.seasonid)
    /\ r.EpisodeID = int(videoid.episodeid)

\* the episode rows after the handler has run on the task
EpisodesAfter(task_handler, task) ==
    IF mediatype(task.videoid) # EPISODE THEN episodes
    ELSE IF task_handler = remove_item
    THEN {r \in episodes : ~SameEpisode(r, task.videoid)}
    ELSE IF task.create_strm_file
    THEN {r \in episodes : ~SameEpisode(r, task.videoid)}
         \cup {EpisodeRow(int(task.videoid.tvshowid), int(task.videoid.seasonid),
                          int(task.videoid.episodeid), TaskFilePath(task))}
    ELSE episodes

\* the movie rows after the handler has run on the task
MoviesAfter(task_handler, task) ==
    IF mediatype(task.videoid) # MOVIE THEN movies
    ELSE IF task_handler = remove_item
    THEN {r \in movies : r.MovieID # int(task.videoid.movieid)}
    ELSE IF task.create_strm_file
    THEN {r \in movies : r.MovieID # int(task.videoid.movieid)}
         \cup {MovieRow(int(task.videoid.movieid), TaskFilePath(task))}
    ELSE movies

\* the files after the handler has run on the task
FilesAfter(task_handler, task) ==
    IF task_handler = remove_item
    THEN files \ {task.file_path, NfoPathOf(task.file_path)}
    ELSE files \cup (IF task.create_strm_file THEN {TaskFilePath(task)} ELSE {})
               \cup (IF task.create_nfo_file THEN {NfoPathOf(TaskFilePath(task))} ELSE {})

\* the exclude_update property is a property of the tv show row
ExcludedAfter(rows) == {v \in excluded : \E r \in rows : r.TvShowID = v}

---------------------------------------------------------------------------
(* LibraryTasks: the task executor (library_tasks.py 32-95) *)

\* the exception a task handler raises
HandlerError == [name |-> <<"OSError">>, message |-> <<"denied">>]

\* '{}: {}'.format(type(exc).__name__, exc)
ErrorText(exc) == exc.name \o <<":", " ">> \o exc.message

\* 'if not compiled_task': None or an empty record
IsFalsy(compiled_task) == DOMAIN compiled_task = {}

\* an _execute_task without the try/except around the handler
execute_task_nocatch(compiled_task, errors, raises) ==
    [invoked |-> ~IsFalsy(compiled_task), done |-> ~IsFalsy(compiled_task) /\ ~raises,
     propagates |-> ~IsFalsy(compiled_task) /\ raises, list_errors |-> errors]

\* library_tasks.py 84-95: the handler is invoked unless the task is falsy;
\* an exception it raises is caught and appended to list_errors
execute_task(compiled_task, errors, raises) ==
    IF IsFalsy(compiled_task)
    THEN [invoked |-> FALSE, done |-> FALSE, propagates |-> FALSE, list_errors |-> errors]
    ELSE IF raises
    THEN [invoked |-> TRUE, done |-> FALSE, propagates |-> FALSE,
          list_errors |-> Append(errors, [task_title |-> compiled_task.title,
                                          error |-> ErrorText(HandlerError)])]
    ELSE [invoked |-> TRUE, done |-> TRUE, propagates |-> FALSE, list_errors |-> errors]

\* a total that counts the tasks of the first handler only
TotalTasksFirst(results) == Len(results[1].tasks)

\* library_tasks.py 46: total_tasks; len(None) raises TypeError
TotalTasks(results) == SumSeq([k \in 1..Len(results) |-> Len(results[k].tasks)])
TotalTasksRaises(results) == \E k \in 1..Len(results) : results[k].none

---------------------------------------------------------------------------
(* Library.auto_update_library and Library._update_library                *)
(* (library.py 154-267), one invocation, step by step                     *)

NoArgs == [sync_with_mylist |-> FALSE, show_prg_dialog |-> FALSE, clear_on_cancel |-> FALSE]

InitLog ==
    [outcome |-> "none",      \* skipped, completed, interrupted, exception
     cause |-> "none",        \* what raised the exception that ended the invocation
     canceled |-> FALSE,      \* progress_bar.iscanceled() has answered True
     aborted |-> FALSE,       \* is_abort_requested has been True
     cleared |-> FALSE,       \* clear_library has been called
     refreshed |-> FALSE,     \* request_kodi_library_upd has been called
     notified |-> FALSE,      \* the completion notification has been shown
     unavailable |-> FALSE,   \* a metadata lookup has raised MetadataNotAvailable
     failures |-> 0,          \* the task handler calls that have raised
     attempted |-> <<>>,      \* the tasks of the current entry handed to _execute_task
     found |-> <<0, 0, 0>>,   \* the episode rows, movie rows and files clear_library found
     full_nfo |-> FALSE,      \* the NFO settings of compile_tasks ask for tvshow.nfo
     delays |-> -1,           \* delay_anti_ban calls since the last entry ended; -1: none ended
     gap |-> -1]              \* the value of delays when the current entry was compiled

\* the NFO settings _update_library resolves for an entry (library.py 243-250)
RunNFOSettings == {NFOSettings(TRUE, TRUE, TRUE)}

NoOp == [fn |-> "none", task_handlers |-> <<>>, videoid |-> None, notify |-> FALSE,
         before |-> {}]

\* no call of the executor in progress
ExecIdle ==
    /\ op = NoOp
    /\ queue = <<>>
    /\ total_tasks = 0
    /\ yields = <<>>
    /\ shown = <<>>
    /\ ops = <<>>

RunIdle ==
    /\ pc = "idle"
    /\ args = NoArgs
    /\ mylist = NoMyList
    /\ exp_tvshows = {}
    /\ exp_movies = {}
    /\ excluded_values = {}
    /\ videoids_tasks = <<>>
    /\ todo = {}
    /\ cur = {}
    /\ compiled = <<>>
    /\ index = 0
    /\ list_errors = <<>>
    /\ log = InitLog
    /\ callers = [p \in 1..NumCallers |-> "idle"]
    /\ name_text = <<>>
    /\ name_clean = <<>>
    /\ ExecIdle

\* an except clause that does not reset the running flag
EndRunKeepFlag(outcome, cause, newlog) ==
    /\ is_running' = (outcome = "exception")
    /\ pc' = "done"
    /\ log' = [newlog EXCEPT !.outcome = outcome, !.cause = cause]

\* library.py 221-225 and 213-216: the invocation ends with the running flag reset
EndRun(outcome, cause, newlog) ==
    /\ is_running' = FALSE
    /\ pc' = "done"
    /\ log' = [newlog EXCEPT !.outcome = outcome, !.cause = cause]

\* library.py 164-212, up to the call of _update_library and its line 235
auto_update_library_start ==
    /\ pc = "idle"
    /\ \E sync \in BOOLEAN, prg \in BOOLEAN, clear \in BOOLEAN,
          S \in SUBSET Ids, raises \in BOOLEAN :
        \* sync_library_with_mylist asks for the dialog and the clearing (library.py
        \* 133), the service for neither
        /\ prg = clear
        /\ (~sync => S = {})
        /\ IF is_running
           THEN /\ ~raises /\ S = {}
                /\ pc' = "done"
                /\ log' = [log EXCEPT !.outcome = "skipped"]
                /\ UNCHANGED <<storeVars, args, mylist, exp_tvshows, exp_movies,
                               excluded_values, videoids_tasks, todo>>
           ELSE /\ args' = [sync_with_mylist |-> sync, show_prg_dialog |-> prg,
                            clear_on_cancel |-> clear]
                /\ IF raises
                   THEN /\ S = {}
                        /\ EndRun("exception", "store", log)
                        /\ UNCHANGED <<mylist, exp_tvshows, exp_movies, excluded_values,
                                       videoids_tasks, todo>>
                   ELSE /\ is_running' = TRUE
                        /\ exp_tvshows' = get_tvshows_id_list
                        /\ exp_movies' = get_movies_id_list
                        /\ mylist' = IF sync THEN MyListOf(S) ELSE NoMyList
                        /\ videoids_tasks' =
                               ComputePlan(sync, get_tvshows_id_list, get_movies_id_list,
                                           get_tvshows_id_list_prop(FALSE), mylist')
                        /\ excluded_values' = get_tvshows_id_list_prop(TRUE)
                        /\ todo' = DOMAIN videoids_tasks'
                        /\ pc' = "update"
                        /\ log' = log
                /\ UNCHANGED <<episodes, movies, excluded, last_start, owner_uuid, files>>
    /\ UNCHANGED <<cur, compiled, index, list_errors, catalogue, schedVars, callVars, textVars, execVars>>

\* a loop that skips no entry
is_excluded_never(videoid, excluded_videoids_values) == FALSE

\* library.py 240: the videoid is excluded from the updates
is_excluded(videoid, excluded_videoids_values) ==
    int(value(videoid)) \in excluded_videoids_values

\* library.py 238-255 with library_tasks.py 40-46: the next entry of the plan is
\* skipped when excluded, or else its tasks are compiled
update_library_next ==
    /\ pc = "update"
    /\ todo # {}
    /\ \E videoid \in todo :
        IF is_excluded(videoid, excluded_values)
        THEN /\ todo' = todo \ {videoid}
             /\ UNCHANGED <<pc, cur, compiled, index, list_errors, log, is_running>>
        ELSE \E available \in BOOLEAN, nfo_settings \in RunNFOSettings :
             LET res == compile_tasks(videoid, videoids_tasks[videoid],
                                      nfo_settings, available)
                 newlog == [log EXCEPT !.unavailable = @ \/ res.none, !.attempted = <<>>,
                                       !.gap = log.delays]
             IN  IF TotalTasksRaises(<<res>>)
                 THEN /\ EndRun("exception", "total_tasks", newlog)
                      /\ UNCHANGED <<todo, cur, compiled, index, list_errors>>
                 ELSE /\ cur' = {videoid}
                      /\ compiled' = res.tasks
                      /\ index' = 0
                      /\ list_errors' = <<>>
                      /\ pc' = "execute"
                      /\ log' = newlog
                      /\ UNCHANGED <<todo, is_running>>
    /\ UNCHANGED <<episodes, movies, excluded, last_start, owner_uuid, files>>
    /\ UNCHANGED <<args, mylist, exp_tvshows, exp_movies, excluded_values,
                   videoids_tasks, catalogue, schedVars, callVars, textVars, execVars>>

CurHandler == videoids_tasks[CHOOSE v \in cur : TRUE]

\* library_tasks.py 48-52 with 84-95: one task of the current entry
execute_library_task ==
    /\ pc = "execute"
    /\ index < Len(compiled)
    /\ \E raises \in {FALSE} \cup {r \in {TRUE} : log.failures < MaxFailures} :
        LET task == compiled[index + 1]
            res == execute_task(task, list_errors, raises)
            newlog == [log EXCEPT !.attempted =
                          Append(@, [title |-> task.title, invoked |-> res.invoked,
                                     raised |-> raises]),
                                  !.failures = IF raises THEN @ + 1 ELSE @]
        IN  IF res.propagates
            THEN /\ EndRun("exception", "task", newlog)
                 /\ UNCHANGED <<index, list_errors, episodes, movies, excluded, files>>
            ELSE /\ list_errors' = res.list_errors
                 /\ index' = index + 1
                 /\ log' = newlog
                 /\ episodes' = IF res.done THEN EpisodesAfter(CurHandler, task)
                                ELSE episodes
                 /\ movies' = IF res.done THEN MoviesAfter(CurHandler, task) ELSE movies
                 /\ files' = IF res.done THEN FilesAfter(CurHandler, task) ELSE files
                 /\ excluded' = ExcludedAfter(episodes')
                 /\ UNCHANGED <<pc, is_running>>
    /\ UNCHANGED <<last_start, owner_uuid>>
    /\ UNCHANGED <<args, mylist, exp_tvshows, exp_movies, excluded_values,
                   videoids_tasks, todo, cur, compiled, catalogue, schedVars, callVars, textVars, execVars>>

\* g.SHARED_DB.purge_library(): the rows of a table after the purge
purge_library(rows) == {}

\* common.delete_folder_contents(section_root_dir, delete_subfolders=True)
delete_folder_contents(fs, folder_name) == {f \in fs : f[1] # folder_name}

\* a clearing that forgets the folder of the tv shows
FilesAfterClearMoviesOnly(fs) == delete_folder_contents(fs, FOLDER_NAME_MOVIES)

\* library.py 146-150: the files after both section folders have been emptied
FilesAfterClear(fs) ==
    delete_folder_contents(delete_folder_contents(fs, FOLDER_NAME_MOVIES),
                           FOLDER_NAME_SHOWS)

\* what clear_library finds in the store and in the folders
FoundByClear == <<Cardinality(episodes), Cardinality(movies), Cardinality(files)>>

\* library.py 136-152: the full clear as a manual operation
clear_library ==
    /\ pc = "idle"
    /\ episodes' = purge_library(episodes)
    /\ movies' = purge_library(movies)
    /\ excluded' = ExcludedAfter(episodes')
    /\ files' = FilesAfterClear(files)
    /\ pc' = "cleared"
    /\ log' = [log EXCEPT !.cleared = TRUE, !.found = FoundByClear]
    /\ UNCHANGED <<is_running, last_start, owner_uuid>>
    /\ UNCHANGED <<args, mylist, exp_tvshows, exp_movies, excluded_values,
                   videoids_tasks, todo, cur, compiled, index, list_errors,
                   catalogue, schedVars, callVars, textVars, execVars>>

\* a cancellation that stops the loop and forgets clear_on_cancel
CancelDecisionNoClear(canceled, abort, clear_on_cancel) ==
    IF canceled \/ abort THEN "stop" ELSE "continue"

\* library.py 258-263: what the loop does once the tasks of an entry have run
CancelDecision(canceled, abort, clear_on_cancel) ==
    IF canceled /\ clear_on_cancel THEN "clear"
    ELSE IF abort THEN "stop"
    ELSE "continue"

\* an end of the loop body that does not wait
entry_tail_no_delay(delays) == delays

\* library.py 264-266: perform_step, set_wait_message and one delay_anti_ban
\* close the loop body
entry_tail_delays(delays) == delays + 1

\* library.py 258-266: the end of an iteration of the loop of _update_library
update_library_entry_done ==
    /\ pc = "execute"
    /\ index = Len(compiled)
    /\ \E canceled \in BOOLEAN, abort \in BOOLEAN :
        LET decision == CancelDecision(canceled, abort, args.clear_on_cancel)
            newlog == [log EXCEPT !.canceled = @ \/ canceled,
                                  !.aborted = @ \/ (abort /\ decision = "stop"),
                                  !.cleared = @ \/ (decision = "clear"),
                                  !.found = IF decision = "clear" THEN FoundByClear ELSE @]
        IN  IF decision = "clear"
            THEN \* clear_library (library.py 136-152), then return False
                 /\ episodes' = purge_library(episodes)
                 /\ movies' = purge_library(movies)
                 /\ excluded' = ExcludedAfter(episodes')
                 /\ files' = FilesAfterClear(files)
                 /\ EndRun("interrupted", "none", newlog)
                 /\ UNCHANGED <<todo, cur>>
            ELSE IF decision = "stop"
            THEN /\ EndRun("interrupted", "none", newlog)
                 /\ UNCHANGED <<episodes, movies, excluded, files, todo, cur>>
            ELSE /\ todo' = todo \ cur
                 /\ cur' = {}
                 /\ pc' = "update"
                 /\ log' = [newlog EXCEPT !.delays = entry_tail_delays(0)]
                 /\ UNCHANGED <<episodes, movies, excluded, files, is_running>>
    /\ UNCHANGED <<last_start, owner_uuid>>
    /\ UNCHANGED <<args, mylist, exp_tvshows, exp_movies, excluded_values,
                   videoids_tasks, compiled, index, list_errors, catalogue, schedVars, callVars, textVars, execVars>>

\* library.py 267 and 213-220: the loop is over, _update_library returns True
auto_update_library_finish ==
    /\ pc = "update"
    /\ todo = {}
    /\ \E notification \in BOOLEAN :
        EndRun("completed", "none",
               [log EXCEPT !.refreshed = TRUE, !.notified = notification])
    /\ UNCHANGED <<episodes, movies, excluded, last_start, owner_uuid, files>>
    /\ UNCHANGED <<args, mylist, exp_tvshows, exp_movies, excluded_values,
                   videoids_tasks, todo, cur, compiled, index, list_errors,
                   catalogue, schedVars, callVars, textVars, execVars>>

---------------------------------------------------------------------------
(* LibraryUpdateService (library_updater.py) *)

DayMinutes == 24 * 60

\* library_updater.py 97: the days of the update frequencies
FREQUENCY_DAYS == <<1, 2, 5, 7>>

\* library_updater.py 65: the idle time, in seconds, the update waits for
IDLE_SECONDS == 300

\* self.next_schedule and the result of _compute_next_schedule: None or a time
Some(t) == <<t>>

\* the device's own uuid, g.LOCAL_DB.get_value('client_uuid')
client_uuid == <<"A">>

\* datetime.replace(hour=h, minute=m), on a time in minutes since the epoch
Replace(t, h, m) == (t \div DayMinutes) * DayMinutes + h * 60 + m

\* g.ADDON.getSetting('lib_auto_upd_start') or '00:00'
StartOrDefault(start) == IF start = <<>> THEN <<"0", "0", ":", "0", "0">> ELSE start

\* the next run without the configured time of day
NextRunNoReplace(cfg, last_run) ==
    last_run + FREQUENCY_DAYS[cfg.freq + 1] * DayMinutes

\* the next run on the day of last_run, no frequency added
NextRunSameDay(cfg, last_run) ==
    LET time == StartOrDefault(cfg.start)
    IN  Replace(last_run, int(SubSeq(time, 1, 2)), int(SubSeq(time, 4, 5)))

\* library_updater.py 91-97: the time of the next run after last_run
NextRun(cfg, last_run) ==
    LET time == StartOrDefault(cfg.start)
    IN  Replace(last_run, int(SubSeq(time, 1, 2)), int(SubSeq(time, 4, 5)))
            + FREQUENCY_DAYS[cfg.freq + 1] * DayMinutes

\* library_updater.py 81-109; reading a setting raises while settings.xml
\* does not exist
compute_next_schedule(cfg, last_run, owner) ==
    IF ~cfg.ready THEN None
    ELSE IF cfg.use_mysql /\ client_uuid # owner THEN None
    ELSE Some(NextRun(cfg, last_run))

\* library_updater.py 25-34 and 75: self.enabled
Enabled(cfg) == cfg.ready /\ cfg.mode = 2

\* library_updater.py 59-64: self.startidle after is_idle has run
StartIdleAfter(lastidle, playing, start) ==
    LET s1 == IF playing THEN lastidle ELSE start
    IN  IF lastidle < s1 THEN 0 ELSE s1

\* library_updater.py 52-65
is_idle(cfg, lastidle, playing, start) ==
    IF ~cfg.wait_idle THEN TRUE
    ELSE lastidle - StartIdleAfter(lastidle, playing, start) >= IDLE_SECONDS

\* due without the idle check
IsDueNoIdle(schedule, time, idle) == schedule # None /\ schedule[1] <= time

\* library_updater.py 42-44: the update is due
IsDue(schedule, time, idle) == schedule # None /\ schedule[1] <= time /\ idle

\* the idle times, in seconds, xbmc.getGlobalIdleTime() reports
IdleTimes == {0, IDLE_SECONDS}

NoTick == [ran |-> FALSE, signal |-> FALSE, idle |-> FALSE,
           next_schedule |-> None, last_start |-> 0, startidle |-> 0,
           changed |-> FALSE]

\* library_updater.py 38-50
on_service_tick ==
    \* the idle time and the player are read with lib_auto_upd_wait_idle only
    \E lastidle \in IF settings.wait_idle THEN IdleTimes ELSE {0},
       playing \in IF settings.wait_idle THEN BOOLEAN ELSE {FALSE} :
        LET idle == is_idle(settings, lastidle, playing, startidle)
            seen == [ran |-> TRUE, signal |-> FALSE, idle |-> idle,
                     next_schedule |-> next_schedule, last_start |-> last_start,
                     startidle |-> startidle, changed |-> FALSE]
        IN  /\ IF ~enabled
               THEN /\ tick' = seen
                    /\ UNCHANGED <<startidle, next_schedule, last_start>>
               ELSE IF IsDue(next_schedule, now, idle)
               THEN \* send_signal('library_auto_update')
                    /\ tick' = [seen EXCEPT !.signal = TRUE]
                    /\ startidle' = IF settings.wait_idle
                                    THEN StartIdleAfter(lastidle, playing, startidle)
                                    ELSE startidle
                    /\ last_start' = now
                    /\ next_schedule' = compute_next_schedule(settings, now, owner_uuid)
               ELSE /\ tick' = seen
                    /\ startidle' = IF /\ next_schedule # None
                                       /\ next_schedule[1] <= now
                                       /\ settings.wait_idle
                                    THEN StartIdleAfter(lastidle, playing, startidle)
                                    ELSE startidle
                    /\ UNCHANGED <<next_schedule, last_start>>
            /\ UNCHANGED <<enabled, settings, now>>
            /\ UNCHANGED <<episodes, movies, excluded, is_running, owner_uuid, files,
                           catalogue, runVars, callVars, textVars, execVars>>

\* the settings the user can give the add-on
AllSettings ==
    [ready : {TRUE}, mode : {0, 2}, wait_idle : BOOLEAN, use_mysql : BOOLEAN,
     start : {<<>>, <<"2", "3", ":", "5", "9">>},
     freq : 0..3]

NoSettings == [ready |-> FALSE, mode |-> 0, wait_idle |-> FALSE, use_mysql |-> FALSE,
               start |-> <<>>, freq |-> 0]

\* the settings after one setting is written; the first write creates
\* settings.xml with every setting in it
SettingsAfterWrite(old) ==
    IF ~old.ready THEN AllSettings
    ELSE {cfg \in AllSettings :
            Cardinality({f \in DOMAIN cfg : cfg[f] # old[f]}) = 1}

\* a handler that leaves the schedule as it was
schedule_after_change_kept(cfg, schedule, last_run, owner) == schedule

\* library_updater.py 77-78: the schedule is computed again if self.enabled
schedule_after_change(cfg, schedule, last_run, owner) ==
    IF cfg.mode = 2 THEN compute_next_schedule(cfg, last_run, owner) ELSE schedule

\* library_updater.py 67-78, called by Kodi when a setting has been written;
\* tick holds the schedule the handler found
onSettingsChanged ==
    /\ \E cfg \in SettingsAfterWrite(settings) :
        /\ settings' = cfg
        /\ enabled' = (cfg.mode = 2)
        /\ next_schedule' = schedule_after_change(cfg, next_schedule, last_start, owner_uuid)
    /\ tick' = [NoTick EXCEPT !.changed = TRUE, !.next_schedule = next_schedule]
    /\ UNCHANGED <<startidle, now>>
    /\ UNCHANGED <<storeVars, catalogue, runVars, callVars, textVars, execVars>>

\* the minutes of the day the clock shows: the start times and the minute
\* after each
ClockMinutes == {0, 1, 23 * 60 + 59}

Clock == {(FirstDay + d) * DayMinutes + m : d \in 0..MaxDays, m \in ClockMinutes}

\* time passes
advance_clock ==
    /\ \E t \in Clock : t > now /\ now' = t
    /\ tick' = NoTick
    /\ UNCHANGED <<enabled, startidle, next_schedule, settings>>
    /\ UNCHANGED <<storeVars, catalogue, runVars, callVars, textVars, execVars>>

\* the uuid of another device that shares the store
other_uuid == <<"B">>

\* another device registers itself in the shared store as the owner of the
\* auto-updates; this device is not told
other_device_becomes_owner ==
    /\ owner_uuid = client_uuid
    /\ owner_uuid' = other_uuid
    /\ tick' = NoTick
    /\ UNCHANGED <<enabled, startidle, next_schedule, settings, now>>
    /\ UNCHANGED <<episodes, movies, excluded, is_running, last_start, files,
                   catalogue, runVars, callVars, textVars, execVars>>

\* the scheduler at rest, for the specifications that do not run it
SchedIdle ==
    /\ enabled = FALSE
    /\ startidle = 0
    /\ next_schedule = None
    /\ settings = NoSettings
    /\ now = 0
    /\ tick = NoTick

---------------------------------------------------------------------------
(* Spec: one auto-update run over an exported library *)

\* the catalogue: every tv show has one season, of NumEpisodes episodes for the
\* first show and of one episode for the others
RunCatalogue ==
    [i \in Ids |-> IF IsMovieId(i) THEN MovieMeta(i)
                   ELSE ShowMeta(i, 1, IF i = 1 THEN NumEpisodes ELSE 1)]

\* the row the export of an episode task or of a movie task leaves in the store
RowOfTask(task) ==
    IF mediatype(task.videoid) = MOVIE
    THEN MovieRow(int(task.videoid.movieid), TaskFilePath(task))
    ELSE EpisodeRow(int(task.videoid.tvshowid), int(task.videoid.seasonid),
                    int(task.videoid.episodeid), TaskFilePath(task))

\* the rows of the first n episodes of the first season of show i of catalogue cat
ExportedEpisodeRows(cat, i, n) ==
    {RowOfTask(create_export_episode_task(
         derive_episode(derive_season(ShowVideoId(unicode(i)), cat[i].seasons[1].id),
                        cat[i].seasons[1].episodes[e].id),
         cat[i].seasons[1].episodes[e], cat[i].seasons[1], cat[i], NoNFOSettings))
     : e \in 1..n}

ExportedMovieRows(cat, M) ==
    {RowOfTask(create_export_movie_task(MovieVideoId(unicode(i)), cat[i], NoNFOSettings)[1])
     : i \in M}

Init ==
    /\ catalogue = RunCatalogue
    /\ \E n \in [ShowIds -> 0..NumEpisodes] :
          /\ \A i \in ShowIds : n[i] <= Len(RunCatalogue[i].seasons[1].episodes)
          /\ episodes = UNION {ExportedEpisodeRows(RunCatalogue, i, n[i]) : i \in ShowIds}
    /\ \E M \in SUBSET MovieIds : movies = ExportedMovieRows(RunCatalogue, M)
    /\ excluded \in SUBSET get_tvshows_id_list
    /\ files = {r.FilePath : r \in episodes \cup movies}
    /\ is_running \in BOOLEAN
    /\ last_start = 0
    /\ owner_uuid = client_uuid
    /\ RunIdle
    /\ SchedIdle

Next ==
    \/ auto_update_library_start
    \/ update_library_next
    \/ execute_library_task
    \/ update_library_entry_done
    \/ auto_update_library_finish
    \/ clear_library

Spec == Init /\ [][Next]_vars

---------------------------------------------------------------------------
(* Properties of the plan of auto_update_library *)

\* the plan has been computed and the loop of _update_library is running
PlanBuilt == pc \in {"update", "execute"}

\* the positions of My List whose video is in neither exported list
MissingPositions ==
    {k \in 1..Len(mylist.video_id_list) :
        /\ int(mylist.video_id_list[k]) \notin exp_tvshows
        /\ int(mylist.video_id_list[k]) \notin exp_movies}

HasTask(videoid, task_handler) ==
    videoid \in DOMAIN videoids_tasks /\ videoids_tasks[videoid] = task_handler

\* C1: with sync_with_mylist, every My List video that is in neither exported
\* list is in the plan with 'export' (export_item) when its type tag is
\* 'movie' and with 'export-new-episodes' (export_new_item) when it is a show.
C1_MissingItemsByTypeTag ==
    (PlanBuilt /\ args.sync_with_mylist) =>
        \A k \in MissingPositions :
            IF mylist.video_id_list_type[k] = "movie"
            THEN HasTask(MovieVideoId(mylist.video_id_list[k]), export_item)
            ELSE HasTask(ShowVideoId(mylist.video_id_list[k]), export_new_item)

\* C2: with sync_with_mylist, every exported tv show or movie that is not in
\* My List is mapped to remove_item in the plan, whatever was seeded for it.
C2_RemovedFromMyListIsRemoved ==
    (PlanBuilt /\ args.sync_with_mylist) =>
        /\ \A v \in exp_tvshows :
              unicode(v) \notin Range(mylist.video_id_list)
                  => HasTask(from_path(SHOW, v), remove_item)
        /\ \A v \in exp_movies :
              unicode(v) \notin Range(mylist.video_id_list)
                  => HasTask(from_path(MOVIE, v), remove_item)

\* C2 witness: a seeded (exported, not excluded) tv show and an exported movie
\* are both missing from a non-empty My List and both are planned for removal
C2_Witness ==
    /\ PlanBuilt /\ args.sync_with_mylist
    /\ mylist.video_id_list # <<>>
    /\ \E v \in exp_tvshows \ excluded_values :
          /\ unicode(v) \notin Range(mylist.video_id_list)
          /\ HasTask(from_path(SHOW, v), remove_item)
    /\ \E v \in exp_movies :
          /\ unicode(v) \notin Range(mylist.video_id_list)
          /\ HasTask(from_path(MOVIE, v), remove_item)

---------------------------------------------------------------------------
(* SpecCompile: compile_tasks as a function of the video id, the task      *)
(* handler, the NFO settings, the remote metadata and the store           *)

\* the metadata of a tv show that carries no 'type' entry
ShowMetaUntyped(i, ns, ne) ==
    [id |-> i, title |-> TitleOf(i),
     seasons |-> [s \in 1..ns |->
                    SeasonMeta(i, s, IF s = ns THEN ne ELSE NumEpisodes)]]

\* the first tv show has ns seasons, the last of them with ne episodes; the
\* metadata of the second tv show has no 'type' entry
CompileCatalogue(ns, ne) ==
    [i \in Ids |-> IF IsMovieId(i) THEN MovieMeta(i)
                   ELSE IF i = 2 THEN ShowMetaUntyped(i, 1, 1)
                   ELSE ShowMeta(i, IF i = 1 THEN ns ELSE 1, IF i = 1 THEN ne ELSE 1)]

\* the videoid of every episode of show i of catalogue cat, with its position
EpisodePositions(cat, i) ==
    UNION {{<<s, e>> : e \in 1..Len(cat[i].seasons[s].episodes)} :
           s \in 1..Len(cat[i].seasons)}

EpisodeVideoId(cat, i, s, e) ==
    derive_episode(derive_season(ShowVideoId(unicode(i)), cat[i].seasons[s].id),
                   cat[i].seasons[s].episodes[e].id)

\* the row the export of episode e of season s of show i leaves in the store
ExportedEpisodeRow(cat, i, s, e) ==
    RowOfTask(create_export_episode_task(
        EpisodeVideoId(cat, i, s, e), cat[i].seasons[s].episodes[e],
        cat[i].seasons[s], cat[i], NoNFOSettings))

\* the video ids compile_tasks is called with
CompileVideoIds ==
    {MovieVideoId(unicode(i)) : i \in MovieIds}
    \cup {ShowVideoId(unicode(i)) : i \in ShowIds}
    \cup {derive_season(ShowVideoId(unicode(1)), catalogue[1].seasons[s].id) :
            s \in 1..Len(catalogue[1].seasons)}
    \cup {EpisodeVideoId(catalogue, 1, p[1], p[2]) : p \in EpisodePositions(catalogue, 1)}

\* the store answers the file path the remove task of a movie or of an
\* episode asks for
RowExists(videoid, task_handler) ==
    task_handler = remove_item =>
        /\ mediatype(videoid) = MOVIE
              => \E r \in movies : r.MovieID = int(videoid.movieid)
        /\ mediatype(videoid) = EPISODE
              => \E r \in episodes : SameEpisode(r, videoid)

InitCompile ==
    /\ \E ns \in 1..NumSeasons, ne \in 1..NumEpisodes :
          /\ catalogue = CompileCatalogue(ns, ne)
          /\ \E P \in SUBSET EpisodePositions(CompileCatalogue(ns, ne), 1) :
                episodes = {ExportedEpisodeRow(CompileCatalogue(ns, ne), 1, p[1], p[2])
                            : p \in P}
          /\ \E M \in SUBSET MovieIds :
                movies = ExportedMovieRows(CompileCatalogue(ns, ne), M)
    /\ excluded = {}
    /\ files = {r.FilePath : r \in episodes \cup movies}
    /\ is_running = FALSE
    /\ last_start = 0
    /\ owner_uuid = client_uuid
    /\ RunIdle
    /\ SchedIdle

\* one call of compile_tasks (library_tasks.py 98-129)
compile_tasks_call ==
    /\ pc = "idle"
    /\ \E videoid \in CompileVideoIds,
          task_handler \in {export_item, export_new_item, remove_item},
          available \in BOOLEAN :
        \* the NFO settings are read by the export of available metadata only:
        \* export_movie_enabled for a movie, the other two for a tv videoid
        \E nfo_settings \in IF task_handler = remove_item \/ ~available
                             THEN {NoNFOSettings}
                             ELSE {NoNFOSettings} \cup
                                  {n \in AllNFOSettings :
                                      IF mediatype(videoid) = MOVIE
                                      THEN ~n.export_tvshow_enabled /\ ~n.export_full_tvshow
                                      ELSE ~n.export_movie_enabled} :
        /\ RowExists(videoid, task_handler)
        /\ LET res == compile_tasks(videoid, task_handler, nfo_settings, available)
           IN  /\ cur' = {videoid}
               /\ videoids_tasks' = [x \in {videoid} |-> task_handler]
               /\ compiled' = res.tasks
               /\ pc' = IF res.none THEN "none" ELSE "compiled"
               /\ log' = [log EXCEPT !.unavailable =
                             ~available /\ task_handler # remove_item,
                                      !.full_nfo = ~nfo_settings.none
                                                   /\ nfo_settings.export_full_tvshow]
    /\ UNCHANGED <<storeVars, catalogue, schedVars, callVars, textVars, execVars>>
    /\ UNCHANGED <<args, mylist, exp_tvshows, exp_movies, excluded_values, todo,
                   index, list_errors>>

NextCompile == compile_tasks_call

SpecCompile == InitCompile /\ [][NextCompile]_vars

---------------------------------------------------------------------------
(* Properties of the compiler *)

CurVideoId == CHOOSE v \in cur : TRUE

\* <<season id, episode id>> of the episodes the remote metadata lists for a show
RemoteEpisodesOf(i) ==
    UNION {{<<catalogue[i].seasons[s].id, catalogue[i].seasons[s].episodes[e].id>> :
               e \in 1..Len(catalogue[i].seasons[s].episodes)} :
           s \in 1..Len(catalogue[i].seasons)}

\* <<season id, episode id>> of the episodes the store holds for a show
PersistedEpisodesOf(i) ==
    {<<r.SeasonID, r.EpisodeID>> : r \in {x \in episodes : x.TvShowID = i}}

\* <<season id, episode id>> of the tasks compiled
CompiledEpisodes ==
    {<<int(compiled[k].videoid.seasonid), int(compiled[k].videoid.episodeid)>> :
        k \in 1..Len(compiled)}

\* export_new_item has been compiled for a tv show
NewEpisodesCompiled ==
    /\ pc = "compiled"
    /\ mediatype(CurVideoId) = SHOW
    /\ videoids_tasks[CurVideoId] = export_new_item

\* C3: for a tv show of which the store holds N episodes and the remote
\* metadata those N and k more, compiling export_new_item gives exactly k
\* export tasks, one per episode that is not in the store, none for one that is.
C3_NewEpisodesOnly ==
    (NewEpisodesCompiled
     /\ PersistedEpisodesOf(int(CurVideoId.tvshowid))
            \subseteq RemoteEpisodesOf(int(CurVideoId.tvshowid))) =>
        LET i == int(CurVideoId.tvshowid)
        IN  /\ Len(compiled) = Cardinality(RemoteEpisodesOf(i))
                                  - Cardinality(PersistedEpisodesOf(i))
            /\ CompiledEpisodes = RemoteEpisodesOf(i) \ PersistedEpisodesOf(i)
            /\ \A k \in 1..Len(compiled) :
                  /\ compiled[k].create_strm_file
                  /\ mediatype(compiled[k].videoid) = EPISODE
                  /\ compiled[k].videoid.tvshowid = CurVideoId.tvshowid

\* C3 witness: some episodes are in the store, and the tasks compiled hold an
\* episode of a season the store knows and an episode of a season it does not
C3_Witness ==
    /\ NewEpisodesCompiled
    /\ LET i == int(CurVideoId.tvshowid)
       IN  /\ PersistedEpisodesOf(i) # {}
           /\ PersistedEpisodesOf(i) \subseteq RemoteEpisodesOf(i)
           /\ \E p \in CompiledEpisodes : \E q \in PersistedEpisodesOf(i) : p[1] = q[1]
           /\ \E p \in CompiledEpisodes : \A q \in PersistedEpisodesOf(i) : p[1] # q[1]

---------------------------------------------------------------------------
(* Properties of the executor and of the auto-update run *)

\* the store and the files show that the handler has run on the task
TaskTookEffect(task_handler, task) ==
    IF task_handler = remove_item
    THEN /\ task.file_path \notin files
         /\ mediatype(task.videoid) = EPISODE
               => ~\E r \in episodes : SameEpisode(r, task.videoid)
         /\ mediatype(task.videoid) = MOVIE
               => ~\E r \in movies : r.MovieID = int(task.videoid.movieid)
    ELSE /\ task.create_strm_file =>
               /\ <<task.root_folder_name, task.folder_name, task.filename, <<".strm">>>>
                      \in files
               /\ \E r \in episodes \cup movies :
                      r.FilePath = <<task.root_folder_name, task.folder_name,
                                     task.filename, <<".strm">>>>
         /\ task.create_nfo_file =>
               <<task.root_folder_name, task.folder_name, task.filename, <<".nfo">>>>
                   \in files

RECURSIVE ErrorsOf(_)
\* the error list a sequence of attempts must leave: one entry per raising task
ErrorsOf(attempts) ==
    IF attempts = <<>> THEN <<>>
    ELSE (IF Head(attempts).raised
          THEN <<[task_title |-> Head(attempts).title,
                  error |-> <<"OSError", ":", " ", "denied">>]>>
          ELSE <<>>) \o ErrorsOf(Tail(attempts))

\* C4: the executor hands every compiled task to its handler, in compiled
\* order, whether or not an earlier one raised; list_errors holds exactly one
\* entry per raising task (its title and '<error-type>: <message>'), the
\* tasks that did not raise have taken effect, and no exception of a handler
\* leaves the executor.
C4_FailingTaskIsIsolated ==
    /\ log.cause # "task"
    /\ pc = "execute" =>
          /\ Len(log.attempted) = index
          /\ \A k \in 1..index :
                /\ log.attempted[k].title = compiled[k].title
                /\ log.attempted[k].invoked
                /\ ~log.attempted[k].raised => TaskTookEffect(CurHandler, compiled[k])
          /\ list_errors = ErrorsOf(log.attempted)

\* C4 witness: a batch of at least two tasks has been run to its end, exactly
\* one of them raised, and it was not the last one
C4_Witness ==
    /\ pc = "execute"
    /\ index = Len(compiled)
    /\ Len(compiled) >= 2
    /\ Len(list_errors) = 1
    /\ log.attempted[1].raised
    /\ ~log.attempted[Len(compiled)].raised
    /\ TaskTookEffect(CurHandler, compiled[Len(compiled)])

\* C5: an invocation of auto_update_library that has set the running flag
\* holds it while it runs and leaves it false when it returns, whichever way
\* it returns.
C5_RunningFlagCleared ==
    /\ pc \in {"update", "execute"} => is_running
    /\ (pc = "done" /\ log.outcome # "skipped") => ~is_running

\* C5 witness: the invocation has ended by an exception raised after tasks of
\* an earlier entry had run, and the flag is false
C5_Witness ==
    /\ pc = "done"
    /\ log.outcome = "exception"
    /\ log.cause = "total_tasks"
    /\ DOMAIN videoids_tasks \ todo # {}
    /\ ~is_running

\* C6: a metadata lookup that raises MetadataNotAvailable makes the entry a
\* no-op: no exception ends the invocation, and unless it is cancelled or
\* aborted the invocation goes through the whole plan and completes.
C6_UnavailableMetadataIsNoOp ==
    log.unavailable =>
        /\ log.outcome # "exception"
        /\ (pc = "done" /\ ~log.canceled /\ ~log.aborted) =>
              (log.outcome = "completed" /\ todo = {})

\* C7: once the progress indicator has reported cancellation in an invocation
\* with clear_on_cancel, the invocation has ended: the store holds no row and
\* the folders no file, _update_library has returned False, and neither a
\* library refresh nor a completion notification has followed.
C7_CancelWithClearWipesLibrary ==
    (log.canceled /\ args.clear_on_cancel) =>
        /\ pc = "done"
        /\ log.outcome = "interrupted"
        /\ log.cleared
        /\ episodes = {} /\ movies = {} /\ files = {}
        /\ ~log.refreshed /\ ~log.notified
        /\ ~is_running

\* C7 witness: the cancellation came while entries of the plan were left and
\* after a task had written a row the clearing then removed
C7_Witness ==
    /\ log.canceled /\ args.clear_on_cancel
    /\ pc = "done"
    /\ todo \ cur # {}
    /\ exp_tvshows # {} /\ exp_movies # {}
    /\ \E k \in 1..Len(log.attempted) :
          log.attempted[k].invoked /\ ~log.attempted[k].raised
    /\ episodes = {} /\ movies = {}

\* C8: once the progress indicator has reported cancellation in an invocation
\* without clear_on_cancel, the invocation has ended as interrupted, with the
\* library not cleared and no later entry compiled or executed.
C8_CancelWithoutClearStops ==
    (log.canceled /\ ~args.clear_on_cancel) =>
        /\ pc = "done"
        /\ log.outcome = "interrupted"
        /\ ~log.cleared

---------------------------------------------------------------------------
(* SpecSched: the service on one device, its settings and the clock *)

\* library_updater.py 25-36: the service starts on the first day, with the
\* settings the user has given or before settings.xml exists; the last
\* update has never started, or started two days before
InitSched ==
    /\ settings \in AllSettings \cup {NoSettings}
    /\ now \in {FirstDay * DayMinutes + m : m \in ClockMinutes}
    /\ last_start \in {0, (FirstDay - 2) * DayMinutes, (FirstDay - 1) * DayMinutes - 1}
    /\ owner_uuid \in {client_uuid, other_uuid}
    /\ enabled = Enabled(settings)
    /\ startidle = 0
    /\ next_schedule = compute_next_schedule(settings, last_start, owner_uuid)
    /\ tick = NoTick
    /\ episodes = {} /\ movies = {} /\ excluded = {} /\ files = {}
    /\ is_running = FALSE
    /\ catalogue = <<>>
    /\ RunIdle

NextSched ==
    \/ on_service_tick
    \/ onSettingsChanged
    \/ advance_clock
    \/ other_device_becomes_owner

SpecSched == InitSched /\ [][NextSched]_vars

---------------------------------------------------------------------------
(* Properties of the scheduler *)

\* C9: on any scheduler tick the 'library_auto_update' signal is sent if and
\* only if auto-update is enabled, a next schedule exists, it is not after
\* now, and the host is idle (with the idle check disabled the host counts
\* as idle); a tick with auto-update not enabled changes no scheduler state
\* and writes nothing to the store.  tick holds what the tick found.
C9_SignalIffDue ==
    tick.ran =>
        /\ tick.signal <=> /\ enabled
                           /\ tick.next_schedule # None
                           /\ tick.next_schedule[1] <= now
                           /\ (settings.wait_idle => tick.idle)
        /\ ~settings.wait_idle => tick.idle
        /\ ~enabled => /\ next_schedule = tick.next_schedule
                       /\ startidle = tick.startidle
                       /\ last_start = tick.last_start
        /\ enabled = (settings.ready /\ settings.mode = 2)

\* a tick with the idle check on has sent the signal
C9_Witness ==
    /\ tick.ran /\ tick.signal
    /\ settings.wait_idle /\ tick.idle
    /\ tick.next_schedule # None

\* the configured run time, in minutes of the day
ConfiguredMinute ==
    IF settings.start = <<>> THEN 0
    ELSE (DigitVal(settings.start[1]) * 10 + DigitVal(settings.start[2])) * 60
         + DigitVal(settings.start[4]) * 10 + DigitVal(settings.start[5])

\* the configured frequency, in days
ConfiguredDays ==
    CASE settings.freq = 0 -> 1
      [] settings.freq = 1 -> 2
      [] settings.freq = 2 -> 5
      [] settings.freq = 3 -> 7

\* a tick in the scenario of the example: frequency 2 days, the last run T
\* at the configured time of day, now T + 2 days + 1 minute, the idle check
\* disabled; auto-update is enabled and has a schedule, and the device is
\* alone on the store or is the registered owner of the auto-updates
ExampleTick ==
    /\ tick.ran
    /\ enabled
    /\ tick.next_schedule # None
    /\ (settings.use_mysql => client_uuid = owner_uuid)
    /\ ConfiguredDays = 2
    /\ ~settings.wait_idle
    /\ tick.last_start % DayMinutes = ConfiguredMinute
    /\ now = tick.last_start + 2 * DayMinutes + 1

\* C10 as stated: in the example the tick is due and the next schedule is
\* T + 4 days at the same time of day
C10_ExampleNextIsFourDays ==
    ExampleTick =>
        /\ tick.signal
        /\ next_schedule = Some(tick.last_start + 4 * DayMinutes)

\* C10: in the example, on a device that is alone on the store or is its
\* registered owner, the tick is due, and the next schedule is T + 4 days
\* at the same time of day when T + 1 minute is on the same day as T, and
\* T + 5 days otherwise (the run time 23:59); in general a schedule that
\* auto-update has computed is the persisted last start with hour and
\* minute replaced by the configured run time, plus the configured
\* frequency in days from {1, 2, 5, 7}.
C10_NextSchedule ==
    /\ ExampleTick =>
        /\ tick.signal
        /\ last_start = now
        /\ next_schedule =
             IF (tick.last_start + 1) \div DayMinutes = tick.last_start \div DayMinutes
             THEN Some(tick.last_start + 4 * DayMinutes)
             ELSE Some(tick.last_start + 5 * DayMinutes)
    /\ (enabled /\ next_schedule # None) =>
        /\ next_schedule[1] % DayMinutes = ConfiguredMinute
        /\ next_schedule[1] \div DayMinutes = last_start \div DayMinutes + ConfiguredDays

\* the example has run, with the next schedule at T + 4 days
C10_Witness ==
    /\ ExampleTick
    /\ tick.signal
    /\ next_schedule = Some(tick.last_start + 4 * DayMinutes)

\* C11: in multi-device shared-store mode, at every tick on which this
\* device sends the 'library_auto_update' signal its client id equals the
\* owner id stored in the shared store at that moment, also when another
\* device has changed the owner id since this device computed its schedule.
C11_OnlyOwnerTriggers ==
    (tick.ran /\ tick.signal /\ settings.use_mysql) => client_uuid = owner_uuid

---------------------------------------------------------------------------
(* SpecRace: the processes that call auto_update_library on one store: the  *)
(* service of a device after the scheduler's signal, the add-on client of   *)
(* a device for a manual sync, the service of another device.  Each goes    *)
(* through library.py 164-169 and leaves by 213 or 225.                     *)

\* library.py 164-165: is_auto_update_library_running()
caller_checks_flag(p) ==
    /\ callers[p] = "idle"
    /\ callers' = [callers EXCEPT ![p] = IF is_running THEN "skipped" ELSE "checked"]
    /\ UNCHANGED <<storeVars, catalogue, runVars, schedVars, textVars, execVars>>

\* library.py 166-169: the flag is set and the run body entered
caller_sets_flag(p) ==
    /\ callers[p] = "checked"
    /\ is_running' = TRUE
    /\ callers' = [callers EXCEPT ![p] = "body"]
    /\ UNCHANGED <<episodes, movies, excluded, last_start, owner_uuid, files>>
    /\ UNCHANGED <<catalogue, runVars, schedVars, textVars, execVars>>

\* library.py 213 and 225: the run body is left and the flag reset
caller_leaves(p) ==
    /\ callers[p] = "body"
    /\ is_running' = FALSE
    /\ callers' = [callers EXCEPT ![p] = "done"]
    /\ UNCHANGED <<episodes, movies, excluded, last_start, owner_uuid, files>>
    /\ UNCHANGED <<catalogue, runVars, schedVars, textVars, execVars>>

\* the invocation has returned; the process can call again
caller_returns(p) ==
    /\ callers[p] \in {"done", "skipped"}
    /\ callers' = [callers EXCEPT ![p] = "idle"]
    /\ UNCHANGED <<storeVars, catalogue, runVars, schedVars, textVars, execVars>>

InitRace ==
    /\ episodes = {} /\ movies = {} /\ excluded = {} /\ files = {}
    /\ is_running = FALSE
    /\ last_start = 0
    /\ owner_uuid = client_uuid
    /\ catalogue = <<>>
    /\ RunIdle
    /\ SchedIdle

NextRace ==
    \E p \in 1..NumCallers :
        \/ caller_checks_flag(p)
        \/ caller_sets_flag(p)
        \/ caller_leaves(p)
        \/ caller_returns(p)

SpecRace == InitRace /\ [][NextRace]_vars

\* C12: at most one auto-update run is active at any time: no interleaving
\* of the callers has two of them inside the run body at once.
C12_AtMostOneRunActive ==
    Cardinality({p \in 1..NumCallers : callers[p] = "body"}) <= 1

---------------------------------------------------------------------------
(* Properties of the manual operations *)

\* C13: after clear_library has returned, the store holds no row of either
\* container type (tv shows, movies) and neither managed root folder
\* (movies, shows) holds a file, whatever was exported before.
C13_ClearLeavesNothing ==
    log.cleared =>
        /\ episodes = {} /\ movies = {}
        /\ get_tvshows_id_list = {} /\ get_movies_id_list = {}
        /\ \A f \in files : f[1] \notin {FOLDER_NAME_MOVIES, FOLDER_NAME_SHOWS}

\* the manual clear has returned, having found rows of both container types
\* and their files
C13_Witness ==
    /\ pc = "cleared"
    /\ log.found[1] > 0 /\ log.found[2] > 0 /\ log.found[3] >= 2
    /\ files = {}

---------------------------------------------------------------------------
(* SpecNames: the names of the folders and files of the export tasks, for  *)
(* the titles the remote metadata can hold                                  *)

\* the characters of a title: a letter, a blank and two illegal characters
TitleChars == {"a", " ", ":", "*"}

Titles == UNION {[1..n -> TitleChars] : n \in 0..MaxLen}

\* the catalogue in which every video has the title t
TitledCatalogue(t) ==
    [i \in Ids |-> IF IsMovieId(i) THEN [MovieMeta(i) EXCEPT !.title = t]
                   ELSE [ShowMeta(i, 1, 1) EXCEPT !.title = t]]

InitNames ==
    /\ name_text \in Titles
    /\ name_clean = <<>>
    /\ catalogue = TitledCatalogue(name_text)
    /\ episodes = {} /\ movies = {} /\ excluded = {} /\ files = {}
    /\ is_running = FALSE
    /\ last_start = 0
    /\ owner_uuid = client_uuid
    /\ pc = "idle"
    /\ args = NoArgs
    /\ mylist = NoMyList
    /\ exp_tvshows = {} /\ exp_movies = {} /\ excluded_values = {}
    /\ videoids_tasks = <<>>
    /\ todo = {} /\ cur = {}
    /\ compiled = <<>>
    /\ index = 0
    /\ list_errors = <<>>
    /\ log = InitLog
    /\ callers = [p \in 1..NumCallers |-> "idle"]
    /\ ExecIdle
    /\ SchedIdle

\* the videoids of the catalogue: the movies, the tv shows, their seasons
\* and their episodes
TitledVideoIds ==
    {MovieVideoId(unicode(i)) : i \in MovieIds}
    \cup {ShowVideoId(unicode(i)) : i \in ShowIds}
    \cup {derive_season(ShowVideoId(unicode(i)), catalogue[i].seasons[1].id) : i \in ShowIds}
    \cup {derive_episode(derive_season(ShowVideoId(unicode(i)), catalogue[i].seasons[1].id),
                         catalogue[i].seasons[1].episodes[1].id) : i \in ShowIds}

\* library_tasks.py 212-213: re.sub(ILLEGAL_CHARACTERS, '', ...) on a title
sanitize_call ==
    /\ pc = "idle"
    /\ name_clean' = sanitize(name_text)
    /\ pc' = "sanitized"
    /\ UNCHANGED <<storeVars, catalogue, schedVars, callVars, name_text, execVars>>
    /\ UNCHANGED <<args, mylist, exp_tvshows, exp_movies, excluded_values,
                   videoids_tasks, todo, cur, compiled, index, list_errors, log>>

\* library_tasks.py 98-129: compile_tasks for an export of a titled video
compile_export_call ==
    /\ pc = "idle"
    /\ \E videoid \in TitledVideoIds, task_handler \in {export_item, export_new_item},
          nfo_settings \in {NoNFOSettings, NFOSettings(TRUE, TRUE, TRUE)} :
        /\ task_handler = export_new_item => mediatype(videoid) = SHOW
        /\ LET res == compile_tasks(videoid, task_handler, nfo_settings, TRUE)
           IN  /\ ~res.none
               /\ cur' = {videoid}
               /\ videoids_tasks' = [x \in {videoid} |-> task_handler]
               /\ compiled' = res.tasks
               /\ pc' = "compiled"
    /\ UNCHANGED <<storeVars, catalogue, schedVars, callVars, textVars, execVars>>
    /\ UNCHANGED <<args, mylist, exp_tvshows, exp_movies, excluded_values, todo,
                   index, list_errors, log>>

NextNames ==
    \/ sanitize_call
    \/ compile_export_call

SpecNames == InitNames /\ [][NextNames]_vars

\* no character of s is forbidden in a file name
NoForbiddenChar(s) ==
    \A k \in 1..Len(s) : s[k] \notin {"<", ">", "|", "\"", "?", "$", "!", ":", "#", "*"}

\* C14: sanitizing is idempotent (sanitize(sanitize(x)) = sanitize(x)), and
\* the folder_name and the filename of every export task the compiler
\* produces (for a movie, an episode, tvshow.nfo) hold no forbidden
\* character.
C14_SanitizedNames ==
    /\ pc = "sanitized" => (sanitize(name_clean) = name_clean /\ NoForbiddenChar(name_clean))
    /\ pc = "compiled" =>
          \A k \in 1..Len(compiled) :
              /\ NoForbiddenChar(compiled[k].folder_name)
              /\ NoForbiddenChar(compiled[k].filename)

\* the export of a tv show whose title holds an illegal character has been
\* compiled, with the task of its episode and the task of tvshow.nfo
C14_Witness ==
    /\ pc = "compiled"
    /\ ~NoForbiddenChar(name_text)
    /\ Len(compiled) = 2
    /\ compiled[1].create_strm_file /\ ~compiled[2].create_strm_file
    /\ Len(compiled[1].folder_name) > 0
    /\ Len(compiled[1].folder_name) < Len(name_text)

---------------------------------------------------------------------------
(* SpecExec: the executor, called for the manual operations                *)
(* (execute_library_tasks_gui, library.py 65-122) and as the generator     *)
(* execute_library_tasks, on a library that changes with the calls         *)

\* library.py 72, 92, 107, 119 and 252: the lists of task handlers
HandlerLists ==
    {<<export_item>>, <<export_new_item>>, <<remove_item>>, <<remove_item, export_item>>}

\* the videoids the executor is called with: a tv show, one of its episodes,
\* a movie
ExecVideoIds ==
    {ShowVideoId(unicode(1)),
     derive_episode(derive_season(ShowVideoId(unicode(1)), SeasonIdOf(1, 1)),
                    EpisodeIdOf(1, 1, 1)),
     MovieVideoId(unicode(3))}

\* library_tasks.py 48 and 75: iteritems(compiled_tasks), the order in which
\* a dict keyed by the task handlers is iterated: the order of insertion on
\* Python 3.7 and later, any order on Python 2
DictOrders(task_handlers) ==
    {ord \in [1..Len(task_handlers) -> Range(task_handlers)] :
        \A j, k \in 1..Len(task_handlers) : ord[j] = ord[k] => j = k}

\* library_tasks.py 48-49 and 75-76: the tasks in the order of the two loops
QueueOf(ord, results, task_handlers) ==
    JoinSeqs([k \in 1..Len(ord) |->
        LET h == CHOOSE j \in 1..Len(task_handlers) : task_handlers[j] = ord[k]
        IN  [t \in 1..Len(results[h].tasks) |->
                [task_handler |-> ord[k], task |-> results[h].tasks[t]]]])

\* ui.show_library_task_errors(notify_errors, errors): what the user is shown
show_library_task_errors(notify_errors, errors) ==
    [displayed |-> notify_errors /\ errors # <<>>, errors |-> errors]

\* the errors shown whatever the caller asked for
SurfaceErrorsAlways(call, errors) == show_library_task_errors(TRUE, errors)

\* library_tasks.py 53 and 82: the errors of the call are surfaced, with
\* notify_errors or show_prg_dialog of the call
SurfaceErrors(call, errors) == show_library_task_errors(call.notify, errors)

\* what is kept of a call that has returned: the rows of the store before
\* the call and after it
Returned(call, raised, errors, before, rows) ==
    [task_handlers |-> call.task_handlers, videoid |-> call.videoid,
     raised |-> raised, errors |-> Len(errors), before |-> before, rows |-> rows]

\* library_tasks.py 40-46 and 64-69: a call of the executor, to total_tasks,
\* with the function, the task handlers, the videoid, the notification of
\* the errors and the availability of the metadata taken from the sets given
ExecutorCall(fns, lists, videoids, notifies, availables) ==
    /\ \E fn \in fns, task_handlers \in lists, videoid \in videoids,
          nfo_settings \in {NoNFOSettings, NFOSettings(TRUE, TRUE, TRUE)},
          notify \in notifies, available \in availables :
        /\ \A k \in 1..Len(task_handlers) : RowExists(videoid, task_handlers[k])
        /\ \E ord \in DictOrders(task_handlers) :
            LET call == [fn |-> fn, task_handlers |-> task_handlers,
                         videoid |-> videoid, notify |-> notify,
                         before |-> episodes \cup movies]
                results == [k \in 1..Len(task_handlers) |->
                               compile_tasks(videoid, task_handlers[k], nfo_settings,
                                             available)]
            IN  /\ op' = call
                /\ cur' = {videoid}
                /\ index' = 0
                /\ list_errors' = <<>>
                /\ yields' = <<>>
                /\ shown' = <<>>
                /\ IF TotalTasksRaises(results)
                   THEN /\ queue' = <<>>
                        /\ total_tasks' = 0
                        /\ pc' = "returned"
                        /\ ops' = Append(ops, Returned(call, TRUE, <<>>, episodes \cup movies,
                                                  episodes \cup movies))
                   ELSE /\ queue' = QueueOf(ord, results, task_handlers)
                        /\ total_tasks' = TotalTasks(results)
                        /\ pc' = "execute"
                        /\ ops' = ops
    /\ UNCHANGED <<storeVars, catalogue, schedVars, callVars, textVars>>
    /\ UNCHANGED <<args, mylist, exp_tvshows, exp_movies, excluded_values,
                   videoids_tasks, todo, compiled, log>>

\* a call of execute_library_tasks or of execute_library_tasks_gui
execute_library_tasks_start ==
    /\ pc = "idle"
    /\ ExecutorCall({"gen", "gui"}, HandlerLists, ExecVideoIds, BOOLEAN, BOOLEAN)

\* library.py 65-78 and 113-122: export_to_library or remove_from_library of
\* the first tv show, one operation after the other
manual_operation ==
    /\ pc \in {"idle", "returned"}
    /\ Len(ops) < MaxOps
    /\ ExecutorCall({"gui"}, {<<export_item>>, <<remove_item>>},
                    {ShowVideoId(unicode(1))}, {TRUE}, {TRUE})

\* library_tasks.py 49-52 and 76-81: one task is executed, and the triple
\* yielded or the progress message set
execute_library_tasks_step ==
    /\ pc = "execute"
    /\ op # NoOp
    /\ index < Len(queue)
    /\ \E raises \in {FALSE} \cup {r \in {TRUE} : log.failures < MaxFailures} :
        LET task_handler == queue[index + 1].task_handler
            task == queue[index + 1].task
            res == execute_task(task, list_errors, raises)
        IN  /\ ~res.propagates
            /\ list_errors' = res.list_errors
            /\ index' = index + 1
            /\ yields' = Append(yields, <<index + 1, total_tasks, task.title>>)
            /\ log' = [log EXCEPT !.failures = IF raises THEN @ + 1 ELSE @]
            /\ episodes' = IF res.done THEN EpisodesAfter(task_handler, task) ELSE episodes
            /\ movies' = IF res.done THEN MoviesAfter(task_handler, task) ELSE movies
            /\ files' = IF res.done THEN FilesAfter(task_handler, task) ELSE files
            /\ excluded' = ExcludedAfter(episodes')
    /\ UNCHANGED <<is_running, last_start, owner_uuid, pc, cur>>
    /\ UNCHANGED <<op, queue, total_tasks, shown, ops>>
    /\ UNCHANGED <<catalogue, schedVars, callVars, textVars>>
    /\ UNCHANGED <<args, mylist, exp_tvshows, exp_movies, excluded_values,
                   videoids_tasks, todo, compiled>>

\* library_tasks.py 53 and 82: the loops are over
execute_library_tasks_finish ==
    /\ pc = "execute"
    /\ op # NoOp
    /\ index = Len(queue)
    /\ shown' = Append(shown, SurfaceErrors(op, list_errors))
    /\ pc' = "returned"
    /\ ops' = Append(ops, Returned(op, FALSE, list_errors, op.before,
                                   episodes \cup movies))
    /\ UNCHANGED <<op, queue, total_tasks, yields>>
    /\ UNCHANGED <<storeVars, catalogue, schedVars, callVars, textVars>>
    /\ UNCHANGED <<args, mylist, exp_tvshows, exp_movies, excluded_values,
                   videoids_tasks, todo, cur, compiled, index, list_errors, log>>

\* an empty library, or the first tv show and the movie exported earlier
InitExec ==
    /\ catalogue = RunCatalogue
    /\ episodes \in {{}, ExportedEpisodeRows(RunCatalogue, 1, NumEpisodes)}
    /\ movies \in {{}, ExportedMovieRows(RunCatalogue, MovieIds)}
    /\ excluded = {}
    /\ files = {r.FilePath : r \in episodes \cup movies}
    /\ is_running = FALSE
    /\ last_start = 0
    /\ owner_uuid = client_uuid
    /\ RunIdle
    /\ SchedIdle

NextExec ==
    \/ execute_library_tasks_start
    \/ execute_library_tasks_step
    \/ execute_library_tasks_finish

SpecExec == InitExec /\ [][NextExec]_vars

\* SpecOps: manual operations on the first tv show, exported earlier or not
NextOps ==
    \/ manual_operation
    \/ execute_library_tasks_step
    \/ execute_library_tasks_finish

SpecOps == InitExec /\ [][NextOps]_vars

\* the episode rows among the rows of the store
EpisodeRowsIn(rows) == {r \in rows : "EpisodeID" \in DOMAIN r}

\* a returned call of the task handlers hs on the first tv show that raised
\* nothing and collected no error
CleanCallOf(o, hs) ==
    /\ o.task_handlers = hs
    /\ o.videoid = ShowVideoId(unicode(1))
    /\ ~o.raised
    /\ o.errors = 0

\* the rows hold every episode the remote metadata lists for the first tv show
ShowFullyExported(rows) ==
    {<<r.SeasonID, r.EpisodeID>> : r \in {x \in EpisodeRowsIn(rows) : x.TvShowID = 1}}
        = RemoteEpisodesOf(1)

\* C15: when a tv show exported from the remote metadata is removed and then
\* exported again from the same metadata, every export task compiled after
\* the removal has the file path (root folder, folder_name, filename) of the
\* row its episode had before the removal, and the rows of the store after
\* the second export are the rows before the removal.
C15_ReexportSamePaths ==
    \A k \in 1..Len(ops) :
        (CleanCallOf(ops[k], <<remove_item>>) /\ ShowFullyExported(ops[k].before)) =>
            /\ (k < Len(ops) /\ CleanCallOf(ops[k + 1], <<export_item>>))
                  => ops[k + 1].rows = ops[k].before
            /\ (k = Len(ops) /\ pc = "execute" /\ op.task_handlers = <<export_item>>)
                  => \A t \in 1..Len(queue) :
                        queue[t].task.create_strm_file =>
                            \E r \in EpisodeRowsIn(ops[k].before) :
                                /\ SameEpisode(r, queue[t].task.videoid)
                                /\ r.FilePath = TaskFilePath(queue[t].task)

\* the show was removed, all its rows gone, and exported again
C15_Witness ==
    /\ Len(ops) = 2
    /\ CleanCallOf(ops[1], <<remove_item>>)
    /\ ShowFullyExported(ops[1].before)
    /\ EpisodeRowsIn(ops[1].rows) = {}
    /\ CleanCallOf(ops[2], <<export_item>>)
    /\ ShowFullyExported(ops[2].rows)
    /\ Len(yields) = NumEpisodes

\* C16: in a call with the task handlers of update_library (remove_item,
\* then export_item) every remove task of the videoid is executed before any
\* of its export tasks, and the total reported is the sum of the task counts
\* of the two groups.
C16_RemoveBeforeExport ==
    (pc = "execute" /\ op.task_handlers = <<remove_item, export_item>>) =>
        /\ \A i, j \in 1..Len(queue) :
              (queue[i].task_handler = remove_item /\ queue[j].task_handler = export_item)
                  => i < j
        /\ total_tasks = Len(queue)

---------------------------------------------------------------------------
(* Properties of the plan and of the loop of an auto-update run (Spec) *)

\* the plan of the invocation has been computed
PlanHeld ==
    \/ PlanBuilt
    \/ pc = "done" /\ log.outcome \in {"completed", "interrupted"}
    \/ pc = "done" /\ log.outcome = "exception" /\ log.cause \in {"total_tasks", "task"}

\* C17: the plan holds export_new_item for every persisted tv show that is
\* not flagged exclude-from-update (unless My List synchronisation has
\* replaced the entry by a removal) and no entry for a flagged one; without
\* sync_with_mylist the plan is exactly this seed: its keys are the
\* persisted shows that are not excluded, every entry is export_new_item, and
\* the movie rows stay as they were while the library is not cleared.
C17_PlanIsSeed ==
    PlanHeld =>
        /\ \A v \in exp_tvshows \ excluded_values :
              \/ HasTask(from_path(SHOW, v), export_new_item)
              \/ /\ args.sync_with_mylist
                 /\ unicode(v) \notin Range(mylist.video_id_list)
                 /\ HasTask(from_path(SHOW, v), remove_item)
        /\ \A v \in excluded_values :
              ~HasTask(from_path(SHOW, v), export_new_item)
        /\ ~args.sync_with_mylist =>
              /\ DOMAIN videoids_tasks
                    = {from_path(SHOW, v) : v \in exp_tvshows \ excluded_values}
              /\ \A x \in DOMAIN videoids_tasks : videoids_tasks[x] = export_new_item
              /\ ~log.cleared =>
                    /\ DOMAIN videoids_tasks
                          = {from_path(SHOW, v) : v \in get_tvshows_id_list \ excluded}
                    /\ get_movies_id_list = exp_movies
                    /\ movies = ExportedMovieRows(catalogue, exp_movies)

\* a run without sync_with_mylist has completed on a library with a show to
\* update, an excluded show and a movie
C17_Witness ==
    /\ pc = "done" /\ log.outcome = "completed"
    /\ ~args.sync_with_mylist
    /\ DOMAIN videoids_tasks # {}
    /\ excluded_values # {}
    /\ exp_movies # {}
    /\ \E v \in exp_tvshows \ excluded_values : PersistedEpisodesOf(v) = RemoteEpisodesOf(v)

\* C18: during an auto-update run the entry whose tasks are compiled and
\* executed is never a tv show flagged exclude-from-update in the store, and
\* the step that passes over the entry of a flagged show (also one planned
\* for removal because it has left My List) compiles nothing, executes
\* nothing, and leaves the store, the files and the error list as they were.
C18_ExcludedShowsSkipped ==
    /\ [](pc = "execute" => \A v \in cur : int(value(v)) \notin excluded)
    /\ [][(\E v \in todo \ todo' : int(value(v)) \in excluded) =>
            /\ pc = "update" /\ pc' = "update"
            /\ UNCHANGED <<storeVars, cur, compiled, index, list_errors, log>>]_vars

\* the entry of an excluded show that has left My List, planned for removal,
\* has been passed over and the show is still in the store
C18_Witness ==
    /\ pc = "update"
    /\ args.sync_with_mylist
    /\ \E v \in excluded :
          /\ unicode(v) \notin Range(mylist.video_id_list)
          /\ HasTask(from_path(SHOW, v), remove_item)
          /\ from_path(SHOW, v) \notin todo
          /\ v \in get_tvshows_id_list
    /\ todo # DOMAIN videoids_tasks

---------------------------------------------------------------------------
(* Properties of one call of the executor (SpecExec) *)

\* the call of the executor in progress or returned got past total_tasks
CallRunning ==
    /\ op # NoOp
    /\ pc = "execute" \/ (pc = "returned" /\ ~ops[Len(ops)].raised)

---------------------------------------------------------------------------
(* Properties of the end of the loop body and of the end of a run (Spec) *)

\* C21: when the tasks of a plan entry are compiled (the metadata being
\* fetched then), either no entry was executed before in the run, or exactly
\* one anti-ban delay has been made since the end of the entry executed last;
\* the entries passed over as excluded make no delay and fetch nothing.
C21_OneDelayBetweenEntries ==
    /\ pc = "execute" => log.gap \in {-1, 1}
    /\ (pc = "execute" /\ log.gap = -1) => log.delays = -1
    /\ (pc = "update" /\ log.delays # -1) => log.delays = 1

\* an entry is being executed after an earlier one
C21_Witness ==
    /\ pc = "execute"
    /\ log.gap = 1
    /\ index > 0

---------------------------------------------------------------------------
(* Properties of the compiler, continued (SpecCompile) *)

\* export_item has been compiled for a tv show, a season or an episode
TvExportCompiled ==
    /\ pc = "compiled"
    /\ videoids_tasks[CurVideoId] = export_item
    /\ mediatype(CurVideoId) # MOVIE

\* <<season id, episode id>> of the episodes the videoid stands for
EpisodesUnder(videoid) ==
    {p \in RemoteEpisodesOf(int(videoid.tvshowid)) :
        /\ mediatype(videoid) \in {SEASON, EPISODE} => p[1] = int(videoid.seasonid)
        /\ mediatype(videoid) = EPISODE => p[2] = int(videoid.episodeid)}

\* the metadata fetched for the videoid has an entry of type 'show'
HasShowEntry(videoid) ==
    /\ "type" \in DOMAIN ShowOf(videoid)
    /\ ShowOf(videoid).type = "show"

\* the positions of the tasks that create no strm file
SummaryPositions == {k \in 1..Len(compiled) : ~compiled[k].create_strm_file}

\* C22: the export of a tv show, season or episode compiles one task with a
\* strm file per episode under the videoid; when the NFO settings ask for the
\* whole-show summary and the metadata has an entry of type 'show', exactly
\* one more task follows them, the last, with create_strm_file false,
\* create_nfo_file true and the title 'tvshow.nfo'; otherwise (no such entry,
\* or no such setting) every task compiled is a per-episode task.
C22_ShowSummaryTask ==
    TvExportCompiled =>
        LET n == Len(compiled)
            summary == log.full_nfo /\ HasShowEntry(CurVideoId)
            last == IF summary THEN n - 1 ELSE n
        IN  /\ SummaryPositions = IF summary THEN {n} ELSE {}
            /\ last = Cardinality(EpisodesUnder(CurVideoId))
            /\ {<<int(compiled[k].videoid.seasonid), int(compiled[k].videoid.episodeid)>> :
                    k \in 1..last} = EpisodesUnder(CurVideoId)
            /\ \A k \in 1..last : mediatype(compiled[k].videoid) = EPISODE
            /\ summary =>
                  /\ n > 0
                  /\ compiled[n].create_nfo_file
                  /\ compiled[n].title = <<"t", "v", "s", "h", "o", "w", ".", "n", "f", "o">>

\* the summary task follows the tasks of several episodes
C22_Witness ==
    /\ TvExportCompiled
    /\ log.full_nfo /\ HasShowEntry(CurVideoId)
    /\ Len(compiled) >= 3
    /\ SummaryPositions = {Len(compiled)}

\* the summary is asked for and the metadata has no entry of type 'show'
C22_WitnessUntyped ==
    /\ TvExportCompiled
    /\ log.full_nfo /\ ~HasShowEntry(CurVideoId)
    /\ Len(compiled) = 1

---------------------------------------------------------------------------
(* SpecShape: compile_tasks on metadata that lacks the keys the task       *)
(* creators read                                                           *)

\* the metadata of a movie without 'year', of a tv show without 'seasons'
StrippedMeta(i) == [type |-> TypeOf(i), id |-> i, title |-> TitleOf(i)]

\* the catalogue in which the videos of S have stripped metadata
ShapeCatalogue(S) ==
    [i \in Ids |-> IF i \in S THEN StrippedMeta(i)
                   ELSE IF IsMovieId(i) THEN MovieMeta(i)
                   ELSE ShowMeta(i, 1, 1)]

\* library_tasks.py 102-125: the try block of compile_tasks catches
\* MetadataNotAvailable only; the KeyError of movie['year'] (line 134) or of
\* show['seasons'] (line 181) leaves compile_tasks
compile_tasks_escapes(videoid, task_handler, available) ==
    /\ task_handler = export_item
    /\ available
    /\ IF mediatype(videoid) = MOVIE
       THEN ~({"title", "year"} \subseteq DOMAIN get_metadata(videoid)[1])
       ELSE ~({"title", "seasons"} \subseteq DOMAIN get_metadata(videoid)[1])

\* one call of compile_tasks (library_tasks.py 98-129) for a movie or a tv show
compile_tasks_shape_call ==
    /\ pc = "idle"
    /\ \E videoid \in {MovieVideoId(unicode(i)) : i \in MovieIds}
                       \cup {ShowVideoId(unicode(i)) : i \in ShowIds},
          task_handler \in {export_item, export_new_item, remove_item},
          available \in BOOLEAN,
          nfo_settings \in {NoNFOSettings, NFOSettings(TRUE, TRUE, TRUE)} :
        /\ RowExists(videoid, task_handler)
        /\ cur' = {videoid}
        /\ videoids_tasks' = [x \in {videoid} |-> task_handler]
        /\ log' = [log EXCEPT !.unavailable = ~available /\ task_handler # remove_item]
        /\ IF compile_tasks_escapes(videoid, task_handler, available)
           THEN /\ compiled' = <<>>
                /\ pc' = "raised"
           ELSE LET res == compile_tasks(videoid, task_handler, nfo_settings, available)
                IN  /\ compiled' = res.tasks
                    /\ pc' = IF res.none THEN "none" ELSE "compiled"
    /\ UNCHANGED <<storeVars, catalogue, schedVars, callVars, textVars, execVars>>
    /\ UNCHANGED <<args, mylist, exp_tvshows, exp_movies, excluded_values, todo,
                   index, list_errors>>

InitShape ==
    /\ \E S \in SUBSET Ids : catalogue = ShapeCatalogue(S)
    /\ episodes \in {{}, ExportedEpisodeRows(RunCatalogue, 1, NumEpisodes)}
    /\ movies \in {{}, ExportedMovieRows(RunCatalogue, MovieIds)}
    /\ excluded = {}
    /\ files = {r.FilePath : r \in episodes \cup movies}
    /\ is_running = FALSE
    /\ last_start = 0
    /\ owner_uuid = client_uuid
    /\ RunIdle
    /\ SchedIdle

NextShape == compile_tasks_shape_call

SpecShape == InitShape /\ [][NextShape]_vars

\* C23: compile_tasks never raises: for every task handler, every kind of
\* videoid and every shape of the metadata it returns a list of tasks or None.
C23_CompileNeverRaises == pc # "raised"

---------------------------------------------------------------------------
(* Properties of the scheduler, continued (SpecSched) *)

---------------------------------------------------------------------------
(* Properties of the end of an auto-update run, continued (Spec) *)

\* C25: the refresh of the host library is requested only by a run that has
\* completed its plan, after the running flag is cleared; a run in which a
\* cancellation or an abort was reported, or that ended by an exception, has
\* requested no refresh and shown no completion notification.
C25_RefreshOnlyAfterCompletion ==
    /\ log.refreshed => (pc = "done" /\ log.outcome = "completed" /\ ~is_running)
    /\ log.notified => log.refreshed
    /\ (log.canceled \/ log.aborted \/ log.outcome = "exception") =>
          (~log.refreshed /\ ~log.notified)

\* a run with sync_with_mylist has completed its plan with no task error
\* and no cancellation
SyncRunCompleted ==
    /\ pc = "done" /\ log.outcome = "completed"
    /\ args.sync_with_mylist
    /\ ~log.canceled
    /\ log.failures = 0

\* the plan a run started now with the same My List would build
RepeatedPlan ==
    ComputePlan(TRUE, get_tvshows_id_list, get_movies_id_list,
                get_tvshows_id_list_prop(FALSE), mylist)

\* C26: after a run with sync_with_mylist that completed with no task error
\* and no cancellation, every video of My List has rows in the store, every
\* tv show of the store that is not excluded and every movie of the store is
\* in My List, and a run repeated at once compiles no task.
C26_SyncConverges ==
    SyncRunCompleted =>
        /\ \A k \in 1..Len(mylist.video_id_list) :
              int(mylist.video_id_list[k]) \in get_tvshows_id_list \cup get_movies_id_list
        /\ \A v \in get_tvshows_id_list \ excluded :
              unicode(v) \in Range(mylist.video_id_list)
        /\ \A v \in get_movies_id_list : unicode(v) \in Range(mylist.video_id_list)
        /\ \A x \in DOMAIN RepeatedPlan :
              \/ is_excluded(x, get_tvshows_id_list_prop(TRUE))
              \/ compile_tasks(x, RepeatedPlan[x], NFOSettings(TRUE, TRUE, TRUE),
                               TRUE).tasks = <<>>

---------------------------------------------------------------------------
(* Properties of the scheduler, continued (SpecSched) *)

\* the first time after t at which the clock shows minute m of the day
NextOccurrence(t, m) ==
    IF t % DayMinutes < m
    THEN (t \div DayMinutes) * DayMinutes + m
    ELSE (t \div DayMinutes + 1) * DayMinutes + m

\* C27: a tick that sends the signal writes now as the last start, and the
\* schedule it computes, if the device still gets one, is that of the
\* settings for this start and is strictly later than now; the schedule the
\* tick fired on was not before the first configured run time after the
\* start it was computed from, and now is not before that schedule; a tick
\* that follows a tick that sent the signal, nothing else having happened,
\* does not send it.
C27_NoImmediateRetrigger ==
    /\ []((tick.ran /\ tick.signal) =>
            /\ last_start = now
            /\ next_schedule # None =>
                  /\ next_schedule = Some(NextRun(settings, now))
                  /\ next_schedule[1] > now
            /\ tick.next_schedule[1] > tick.last_start
            /\ tick.next_schedule[1] >= NextOccurrence(tick.last_start, ConfiguredMinute)
            /\ now >= tick.next_schedule[1])
    /\ [][(tick.ran /\ tick.signal /\ tick'.ran) => ~tick'.signal]_vars

\* a tick has sent the signal a second time, after an earlier start, for the
\* run time 23:59
C27_Witness ==
    /\ tick.ran /\ tick.signal
    /\ tick.last_start >= FirstDay * DayMinutes
    /\ next_schedule # None
    /\ ConfiguredMinute = 23 * 60 + 59

---------------------------------------------------------------------------
(* The full sync with My List (SpecSync) *)

\* library.py 124-133: clear_library is called first (132), then
\* auto_update_library with the list sync, the dialog and the clearing on
\* cancel (133), which looks at the running flag only then (164-165)
sync_library_with_mylist ==
    /\ pc = "idle"
    /\ episodes' = purge_library(episodes)
    /\ movies' = purge_library(movies)
    /\ excluded' = ExcludedAfter(episodes')
    /\ files' = FilesAfterClear(files)
    /\ \E S \in SUBSET Ids, raises \in BOOLEAN :
        LET clearlog == [log EXCEPT !.cleared = TRUE, !.found = FoundByClear]
        IN  IF is_running
            THEN /\ ~raises /\ S = {}
                 /\ pc' = "done"
                 /\ log' = [clearlog EXCEPT !.outcome = "skipped"]
                 /\ UNCHANGED <<is_running, args, mylist, exp_tvshows, exp_movies,
                                excluded_values, videoids_tasks, todo>>
            ELSE /\ args' = [sync_with_mylist |-> TRUE, show_prg_dialog |-> TRUE,
                             clear_on_cancel |-> TRUE]
                 /\ IF raises
                    THEN /\ S = {}
                         /\ EndRun("exception", "store", clearlog)
                         /\ UNCHANGED <<mylist, exp_tvshows, exp_movies, excluded_values,
                                        videoids_tasks, todo>>
                    ELSE /\ is_running' = TRUE
                         /\ exp_tvshows' = get_tvshows_id_list'
                         /\ exp_movies' = get_movies_id_list'
                         /\ mylist' = MyListOf(S)
                         /\ videoids_tasks' =
                                ComputePlan(TRUE, exp_tvshows', exp_movies',
                                            get_tvshows_id_list_prop(FALSE)', mylist')
                         /\ excluded_values' = get_tvshows_id_list_prop(TRUE)'
                         /\ todo' = DOMAIN videoids_tasks'
                         /\ pc' = "update"
                         /\ log' = clearlog
    /\ UNCHANGED <<last_start, owner_uuid>>
    /\ UNCHANGED <<cur, compiled, index, list_errors, catalogue, schedVars, callVars,
                   textVars, execVars>>

NextSync ==
    \/ sync_library_with_mylist
    \/ update_library_next
    \/ execute_library_task
    \/ update_library_entry_done
    \/ auto_update_library_finish

SpecSync == Init /\ [][NextSync]_vars

\* C28: a full sync called while the running flag is set, which
\* auto_update_library answers by returning at once, has found nothing to
\* delete: no row of the store and no file of the managed folders is removed
\* by it.
C28_NoPurgeWhileRunning ==
    (pc = "done" /\ log.cleared /\ log.outcome = "skipped") => log.found = <<0, 0, 0>>

---------------------------------------------------------------------------
(* The progress message of the auto-update (Spec) *)

\* library.py 256: the two numbers of label_partial_op for a yielded index,
\* None when the entry has a single task
label_partial_op(yielded, total) ==
    IF total > 1 THEN Some(<<yielded + 1, total>>) ELSE None

\* library_tasks.py 51-52 with library.py 256-257: the label of the message set
\* after the latest task of the entry, index being the value yielded for it
ProgressLabel == label_partial_op(index, Len(compiled))

\* C29: the position shown for a task of an entry with more than one task
\* lies between 1 and the total, is 1 after the first task and is the total
\* after the last one.
C29_PositionWithinTotal ==
    (pc = "execute" /\ index >= 1 /\ ProgressLabel # None) =>
        LET p == ProgressLabel[1][1]
            total == ProgressLabel[1][2]
        IN  /\ 1 <= p /\ p <= total
            /\ index = 1 => p = 1
            /\ index = Len(compiled) => p = total

=============================================================================
